---- MODULE Spec2Model ----
(***************************************************************************)
(* Model of the delivery backend: the JWT middlewares and the role gate    *)
(* (adminAuth.js, compradorAuth.js), the order routes                      *)
(* (pedidoController.js) and the staff routes (adminAuth.js), over the     *)
(* MySQL tables declared in db.js.                                         *)
(*                                                                         *)
(* A request occupies a slot and moves through its middleware chain and    *)
(* then through its handler, one step per await point.  Money is kept in   *)
(* cents, a JSON number used as a quantity in tenths (17 is 1.7).          *)
(***************************************************************************)
EXTENDS Integers, Sequences, FiniteSets, TLC

VARIABLES
    req,              \* slot -> the request in that slot (express req/res and the handler's locals)
    administradores,  \* table administradores: set of rows [id, email, role]
    nextAdminId,      \* AUTO_INCREMENT of administradores
    produtos,         \* table produtos: set of rows [id, preco, disponivel]
    pedidos,          \* table pedidos (committed rows): set of rows [id, comprador_id, total, endereco, status]
    itens_pedido,     \* table itens_pedido (committed rows), in insertion order
    nextPedidoId,     \* AUTO_INCREMENT of pedidos
    strictMode        \* whether the MySQL server runs with a strict sql_mode

vars == <<req, administradores, nextAdminId, produtos, pedidos, itens_pedido,
          nextPedidoId, strictMode>>

dbVars == <<administradores, nextAdminId, produtos, pedidos, itens_pedido,
            nextPedidoId, strictMode>>

-----------------------------------------------------------------------------
(* Roles and tokens *)

\* adminAuth.js: const roleHierarchy = { 'dono': 3, 'gerente': 2, 'funcionario': 1 }
roleHierarchy == [dono |-> 3, gerente |-> 2, funcionario |-> 1]

StaffRoles == DOMAIN roleHierarchy

\* Values the role claim of a token signed with JWT_SECRET can carry: a staff
\* role, the buyer marker, the 'admin' of the first adminAuth revision, or
\* nothing ("none": the claim is absent, null or '').
TokenRoles == StaffRoles \cup {"comprador", "admin", "none"}

NoUser == [id |-> 0, role |-> "none"]

\* A property lookup on roleHierarchy: a rank, or JavaScript's undefined.
RankOf(role) ==
    IF role \in DOMAIN roleHierarchy
    THEN [defined |-> TRUE, val |-> roleHierarchy[role]]
    ELSE [defined |-> FALSE, val |-> 0]

\* JavaScript a >= b on two lookups: false as soon as one side is undefined.
JsGE(a, b) == a.defined /\ b.defined /\ a.val >= b.val

\* JavaScript a > b on two lookups.
JsGT(a, b) == a.defined /\ b.defined /\ a.val > b.val

\* The mutant: the token is decoded without its signature being checked.
JwtVerifySkipsSignature(token) == ~token.expired

\* The mutant: the token is accepted only while its account is stored.
JwtVerifyChecksStore(token) ==
    token.sig /\ ~token.expired /\ \E a \in administradores : a.id = token.id

\* jwt.verify(token, JWT_SECRET): throws on a bad signature and on expiry.
JwtVerify(token) == token.sig /\ ~token.expired

\* The mutant: the gate compares ranks with === instead of >=.
CheckPermissionEquality(user, requiredRole) ==
    IF user = NoUser \/ user.role = "none"
    THEN 403
    ELSE IF RankOf(user.role).defined /\ RankOf(requiredRole).defined
            /\ RankOf(user.role).val = RankOf(requiredRole).val
         THEN 0
         ELSE 403

\* The mutant: a claim set without a usable rank is let through.
CheckPermissionOpen(user, requiredRole) ==
    IF user = NoUser \/ user.role = "none"
    THEN 403
    ELSE IF ~JsGT(RankOf(requiredRole), RankOf(user.role))
         THEN 0
         ELSE 403

\* checkPermission(requiredRole)(req, res, next): 0 stands for next(), any
\* other value is the status of the response sent instead.
CheckPermission(user, requiredRole) ==
    IF user = NoUser \/ user.role = "none"
    THEN 403
    ELSE IF JsGE(RankOf(user.role), RankOf(requiredRole))
         THEN 0
         ELSE 403

-----------------------------------------------------------------------------
(* Routes *)

Routes == {"criarPedido", "meusPedidos", "meuPedido", "listarTodos", "mudarStatus",
           "deletarPedido", "novoFuncionario", "excluirFuncionario", "relatorios",
           "dashboard", "lerProduto", "atualizarProduto"}

\* Which authentication middleware a route mounts first.
RouteAuth(route) ==
    IF route \in {"criarPedido", "meusPedidos", "meuPedido", "lerProduto"}
    THEN "comprador"
    ELSE "admin"

\* The argument of the route's checkPermission(...), "nenhum" when the route
\* mounts none.
RouteRequired(route) ==
    CASE route = "mudarStatus"        -> "funcionario"
      [] route = "deletarPedido"      -> "gerente"
      [] route = "novoFuncionario"    -> "gerente"
      [] route = "relatorios"         -> "gerente"
      [] route = "excluirFuncionario" -> "dono"
      [] route = "atualizarProduto"   -> "gerente"
      [] OTHER                        -> "nenhum"

-----------------------------------------------------------------------------
(* Requests *)

NoTx == [pedido |-> <<>>, itens |-> <<>>]

\* The fields a JSON response of these routes can carry.
NoReply == [pedidos |-> {}, novo_status |-> "", pedido_id |-> 0, total |-> 0, id |-> 0,
            role |-> "absent", message |-> "", itens |-> <<>>]

IdleReq ==
    [pc |-> "idle", route |-> "none", header |-> "none",
     token |-> [sig |-> FALSE, expired |-> FALSE, id |-> 0, role |-> "none"],
     user |-> NoUser,
     status |-> 0,            \* status of the response sent, 0 while none was sent
     reply |-> NoReply,       \* payload of the response
     id |-> 0,                \* req.params.id
     novo_status |-> "",      \* req.body.novo_status ("" when absent)
     role |-> "absent",       \* req.body.role ("absent" when undefined, "null" for null)
     email |-> "",            \* req.body.email
     campos |-> FALSE,        \* nome, email and senha are all present
     preco |-> 0,             \* req.body.preco in cents (0 when absent, -1 when no number)
     disponivel |-> "absent", \* req.body.disponivel ("absent", "true" or "false")
     endereco |-> FALSE,      \* req.body.endereco is present and non-empty
     nItens |-> 0,            \* req.body.itens.length (0 also when itens is absent)
     dbError |-> FALSE,       \* a statement of this request failed in the store
     antes |-> "",            \* the status an UPDATE of this request overwrote
     affectedRows |-> 0,      \* pedidoResult.affectedRows of the DELETE of the header
     connection |-> "none",   \* none, held, released
     tx |-> NoTx,             \* rows written in the open transaction
     txState |-> "none",      \* none, open, committed, rolledback
     total |-> 0, dbItens |-> <<>>, i |-> 1, pedidoId |-> 0,
     item |-> [produto_id |-> 0, quantidade |-> [kind |-> "text", tenths |-> 0],
               preco_unitario |-> 0],   \* the element of itens the first loop is at,
                                        \* in scope inside the loop only
     log |-> <<>>]            \* the request's statements and response, in order

NoToken == IdleReq.token

\* The Authorization headers a client can send: no header, a header that is
\* not 'Bearer ...', or one of the bearer tokens.
Credentials(tokens) ==
    {[header |-> "none", token |-> NoToken],
     [header |-> "malformed", token |-> NoToken]}
    \cup {[header |-> "bearer", token |-> t] : t \in tokens}

\* An incoming request, before its first middleware.
Send(route, cred) ==
    [IdleReq EXCEPT !.pc = "auth", !.route = route, !.header = cred.header,
                    !.token = cred.token]

Free(s) == req[s].pc \in {"idle", "done", "rejected"}

\* res.status(code).json(payload), ending the request.
Respond(r, code, payload) ==
    [r EXCEPT !.pc = "done", !.status = code, !.reply = payload,
              !.log = Append(@, "RESPOND")]

\* The mutant: the catch block answers with the error jwt.verify threw
\* (error.message) instead of its fixed text.
AuthFailureTellsCause(header, token) ==
    IF header # "bearer"
    THEN [status |-> 401, message |-> "Token nao fornecido"]
    ELSE [status |-> 401,
          message |-> IF token.expired THEN "jwt expired" ELSE "invalid signature"]

\* The response of either authentication middleware to a request it refuses:
\* the 401 of the header check, or the 401 of the catch block around
\* jwt.verify, whose text does not depend on the error caught.
AuthFailure(header, token) ==
    IF header # "bearer"
    THEN [status |-> 401, message |-> "Token nao fornecido"]
    ELSE [status |-> 401, message |-> "Token invalido ou expirado"]

\* res.status(401).json({ message }) of an authentication middleware.
Refuse(r) ==
    LET f == AuthFailure(r.header, r.token)
    IN  Respond(r, f.status, [NoReply EXCEPT !.message = f.message])

\* adminAuth.js authMiddleware
AuthMiddleware(s) ==
    /\ req[s].pc = "auth"
    /\ RouteAuth(req[s].route) = "admin"
    /\ LET r == req[s]
           next == IF RouteRequired(r.route) = "nenhum" THEN "handler" ELSE "perm"
       IN  req' = [req EXCEPT ![s] =
                IF r.header # "bearer"
                THEN Refuse(r)
                ELSE IF JwtVerify(r.token)
                     THEN [r EXCEPT !.user = [id |-> r.token.id, role |-> r.token.role],
                                    !.pc = next]
                     ELSE Refuse(r)]
    /\ UNCHANGED dbVars

\* compradorAuth.js compradorAuthMiddleware
CompradorAuthMiddleware(s) ==
    /\ req[s].pc = "auth"
    /\ RouteAuth(req[s].route) = "comprador"
    /\ LET r == req[s]
       IN  req' = [req EXCEPT ![s] =
                IF r.header # "bearer"
                THEN Refuse(r)
                ELSE IF JwtVerify(r.token)
                     THEN IF r.token.role # "comprador"
                          THEN Respond(r, 403, NoReply)
                          ELSE [r EXCEPT !.user = [id |-> r.token.id, role |-> r.token.role],
                                         !.pc = "handler"]
                     ELSE Refuse(r)]
    /\ UNCHANGED dbVars

\* The middleware checkPermission(requiredRole) returns, mounted on the route.
PermissionGate(s) ==
    /\ req[s].pc = "perm"
    /\ LET r == req[s]
           code == CheckPermission(r.user, RouteRequired(r.route))
       IN  req' = [req EXCEPT ![s] =
                IF code = 0 THEN [r EXCEPT !.pc = "handler"]
                ELSE Respond(r, code, NoReply)]
    /\ UNCHANGED dbVars

-----------------------------------------------------------------------------
(* The state of the store after db.checkConnection(): the tables exist and  *)
(* createInitialAdmin has inserted the owner.                               *)

InitialAdmin == [id |-> 1, email |-> "admin@dono.com", role |-> "dono"]

EmptyStore ==
    /\ administradores = {InitialAdmin}
    /\ nextAdminId = 2
    /\ pedidos = {}
    /\ itens_pedido = <<>>
    /\ nextPedidoId = 1
    /\ strictMode \in BOOLEAN

-----------------------------------------------------------------------------
(* SpecPerm: two requests passing the middleware chain of the role-gated    *)
(* routes.  A request that reaches its handler waits there.                 *)

SlotsPerm == {1, 2}

GatedRoutes == {r \in Routes : RouteRequired(r) # "nenhum"}

\* One valid token per role claim, one tampered and one expired token.
TokensPerm ==
    {[sig |-> TRUE, expired |-> FALSE, id |-> 1, role |-> ro] : ro \in TokenRoles}
    \cup {[sig |-> FALSE, expired |-> FALSE, id |-> 1, role |-> "dono"],
          [sig |-> TRUE, expired |-> TRUE, id |-> 1, role |-> "dono"]}

ReceiveGated(s) ==
    /\ req[s].pc \in {"idle", "done", "handler"}
    /\ \E route \in GatedRoutes, cred \in Credentials(TokensPerm) :
          req' = [req EXCEPT ![s] = Send(route, cred)]
    /\ UNCHANGED dbVars

InitPerm ==
    /\ req = [s \in SlotsPerm |-> IdleReq]
    /\ produtos = {}
    /\ EmptyStore
    /\ strictMode = TRUE

NextPerm ==
    \E s \in SlotsPerm :
        \/ ReceiveGated(s)
        \/ AuthMiddleware(s)
        \/ PermissionGate(s)

SpecPerm == InitPerm /\ [][NextPerm]_vars

-----------------------------------------------------------------------------
(* SpecAuth: two requests to any route, each carrying any kind of           *)
(* credential, passing the route's middleware chain.  A request that        *)
(* reaches its handler waits there.                                         *)

SlotsAuth == {1, 2}

\* A valid staff token, a valid buyer token, and for each of them an expired
\* one, one with a bad signature, and one both expired and badly signed.
TokensAuth ==
    [sig : BOOLEAN, expired : BOOLEAN, id : {1}, role : {"dono", "comprador"}]

ReceiveAny(s) ==
    /\ req[s].pc \in {"idle", "done", "handler"}
    /\ \E route \in Routes, cred \in Credentials(TokensAuth) :
          req' = [req EXCEPT ![s] = Send(route, cred)]
    /\ UNCHANGED dbVars

InitAuth ==
    /\ req = [s \in SlotsAuth |-> IdleReq]
    /\ produtos = {}
    /\ EmptyStore
    /\ strictMode = TRUE

NextAuth ==
    \E s \in SlotsAuth :
        \/ ReceiveAny(s)
        \/ AuthMiddleware(s)
        \/ CompradorAuthMiddleware(s)
        \/ PermissionGate(s)

SpecAuth == InitAuth /\ [][NextAuth]_vars

-----------------------------------------------------------------------------
(* JavaScript values returned by the data layer *)

\* The mutant: db.query resolves to mysql2's own array [rows, fields].
DbQueryReturnsArray(rows) == [kind |-> "array", rows |-> rows]

\* db.js Database.query: resolves to the plain object { rows, fields }.
DbQuery(rows) == [kind |-> "object", rows |-> rows]

\* mysql2 connection.execute / pool.execute: resolves to the array [rows, fields].
ConnExecute(rows) == [kind |-> "array", rows |-> rows]

\* const [x] = value: binds x to the first element of an array; a plain object
\* is not iterable and the statement throws a TypeError.
ArrayDestructure(value) ==
    IF value.kind = "array"
    THEN [threw |-> FALSE, first |-> value.rows]
    ELSE [threw |-> TRUE, first |-> <<>>]

\* What the client sees when an async handler's promise rejects outside any
\* try block: express 4 leaves the request unanswered (0), express 5 hands the
\* error to its default handler, which answers 500.
UnhandledRejection == {0, 500}

Reject(r, code) ==
    [r EXCEPT !.pc = "rejected", !.status = code,
              !.log = IF code = 0 THEN @ ELSE Append(@, "RESPOND")]

-----------------------------------------------------------------------------
(* Order status: PUT /api/pedidos/admin/:id/status, GET /api/pedidos/admin *)

PedidoIdsOf(P) == {p.id : p \in P}

RowOf(P, id) == CHOOSE p \in P : p.id = id

Includes(seq, x) == \E k \in DOMAIN seq : seq[k] = x

\* pedidoController.js: const statusValidos = [...]
statusValidosComNovo ==
    <<"novo", "aceito", "preparando", "saiu_entrega", "entregue", "cancelado">>

statusValidos == <<"aceito", "preparando", "saiu_entrega", "entregue", "cancelado">>

\* UPDATE pedidos SET status = ? written without its WHERE clause.
UpdateStatusAllRows(P, id, st) == {[p EXCEPT !.status = st] : p \in P}

\* UPDATE pedidos SET status = ? WHERE id = ?
UpdateStatus(P, id, st) ==
    {IF p.id = id THEN [p EXCEPT !.status = st] ELSE p : p \in P}

\* The handler up to its first await: the check of novo_status.
StatusValidate(s) ==
    /\ req[s].pc = "handler"
    /\ req[s].route = "mudarStatus"
    /\ LET r == req[s]
       IN  req' = [req EXCEPT ![s] =
                IF r.novo_status = "" \/ ~Includes(statusValidos, r.novo_status)
                THEN Respond(r, 400, NoReply)
                ELSE IF r.novo_status = "cancelado"
                     THEN [r EXCEPT !.pc = "guard"]
                     ELSE [r EXCEPT !.pc = "update"]]
    /\ UNCHANGED dbVars

\* The cancellation guard: the SELECT through db.query and the destructuring
\* of its result, both outside the handler's try block.
StatusGuard(s) ==
    /\ req[s].pc = "guard"
    /\ LET r == req[s]
           found == IF r.id \in PedidoIdsOf(pedidos)
                    THEN <<RowOf(pedidos, r.id)>> ELSE <<>>
           d == ArrayDestructure(DbQuery(found))
       IN  \E ok \in BOOLEAN, outcome \in UnhandledRejection :
              req' = [req EXCEPT ![s] =
                  IF ~ok
                  THEN Reject([r EXCEPT !.dbError = TRUE], outcome)
                  ELSE IF d.threw
                       THEN Reject(r, outcome)
                       ELSE IF Len(d.first) > 0 /\ d.first[1].status = "saiu_entrega"
                            THEN Respond(r, 403, NoReply)
                            ELSE [r EXCEPT !.pc = "update"]]
    /\ UNCHANGED dbVars

\* The UPDATE and the response, inside the try block.
StatusUpdate(s) ==
    /\ req[s].pc = "update"
    /\ LET r == req[s]
       IN  \E ok \in BOOLEAN :
              IF ~ok
              THEN /\ req' = [req EXCEPT ![s] =
                          Respond([r EXCEPT !.dbError = TRUE], 500, NoReply)]
                   /\ UNCHANGED pedidos
              ELSE IF r.id \in PedidoIdsOf(pedidos)
                   THEN /\ pedidos' = UpdateStatus(pedidos, r.id, r.novo_status)
                        /\ req' = [req EXCEPT ![s] =
                               Respond([r EXCEPT !.antes = RowOf(pedidos, r.id).status],
                                       200,
                                       [NoReply EXCEPT !.pedido_id = r.id,
                                                       !.novo_status = r.novo_status])]
                   ELSE /\ req' = [req EXCEPT ![s] = Respond(r, 404, NoReply)]
                        /\ UNCHANGED pedidos
    /\ UNCHANGED <<administradores, nextAdminId, produtos, itens_pedido,
                   nextPedidoId, strictMode>>

\* GET /api/pedidos/admin: mounted behind adminAuthMiddleware alone.
ListarTodos(s) ==
    /\ req[s].pc = "handler"
    /\ req[s].route = "listarTodos"
    /\ LET r == req[s]
       IN  \E ok \in BOOLEAN :
              req' = [req EXCEPT ![s] =
                  IF ok
                  THEN Respond(r, 200, [NoReply EXCEPT !.pedidos = PedidoIdsOf(pedidos)])
                  ELSE Respond([r EXCEPT !.dbError = TRUE], 500, NoReply)]
    /\ UNCHANGED dbVars

-----------------------------------------------------------------------------
(* SpecStatus: staff and other callers working on orders that buyers have   *)
(* placed.  Every order starts as createOrder leaves it: status 'novo', one *)
(* line item of one unit of product 1.                                      *)

MaxPedidos == 2

SlotsStatus == {1}

StatusInputs == {"", "novo", "enviado", "aceito", "preparando", "saiu_entrega",
                 "entregue", "cancelado"}

PlacedOrder(id) ==
    [id |-> id, comprador_id |-> 1, total |-> 1000, endereco |-> "rua A",
     status |-> "novo"]

PlacedItem(id) ==
    [pedido_id |-> id, produto_id |-> 1, quantidade |-> 1, preco_unitario |-> 1000]

\* A valid token of each staff role and of a buyer, and a tampered one.
TokensStatus ==
    {[sig |-> TRUE, expired |-> FALSE, id |-> 1, role |-> ro] :
        ro \in StaffRoles \cup {"comprador"}}
    \cup {[sig |-> FALSE, expired |-> FALSE, id |-> 1, role |-> "dono"]}

ReceiveStatus(s) ==
    /\ Free(s)
    /\ \E cred \in Credentials(TokensStatus) \ {[header |-> "malformed", token |-> NoToken]} :
          \/ \E id \in 1..(MaxPedidos + 1), st \in StatusInputs :
                req' = [req EXCEPT ![s] =
                    [Send("mudarStatus", cred) EXCEPT !.id = id, !.novo_status = st]]
          \/ req' = [req EXCEPT ![s] = Send("listarTodos", cred)]
    /\ UNCHANGED dbVars

InitStatus ==
    /\ req = [s \in SlotsStatus |-> IdleReq]
    /\ administradores = {InitialAdmin}
    /\ nextAdminId = 2
    /\ produtos = {[id |-> 1, preco |-> 1000, disponivel |-> TRUE]}
    /\ pedidos = {PlacedOrder(id) : id \in 1..MaxPedidos}
    /\ itens_pedido = [id \in 1..MaxPedidos |-> PlacedItem(id)]
    /\ nextPedidoId = MaxPedidos + 1
    /\ strictMode = TRUE

NextStatus ==
    \E s \in SlotsStatus :
        \/ ReceiveStatus(s)
        \/ AuthMiddleware(s)
        \/ PermissionGate(s)
        \/ StatusValidate(s)
        \/ StatusGuard(s)
        \/ StatusUpdate(s)
        \/ ListarTodos(s)

SpecStatus == InitStatus /\ [][NextStatus]_vars

-----------------------------------------------------------------------------
(* Buyer reads: GET /api/pedidos/meus, GET /api/pedidos/meus/:id *)

\* The mutant: SELECT ... FROM pedidos WHERE id = ?
SelectPedidoPorId(P, id, comprador_id) == {p \in P : p.id = id}

\* SELECT ... FROM pedidos WHERE id = ? AND comprador_id = ?
SelectPedidoDoComprador(P, id, comprador_id) ==
    {p \in P : p.id = id /\ p.comprador_id = comprador_id}

\* SELECT ... FROM pedidos WHERE comprador_id = ?
SelectPedidosDoComprador(P, comprador_id) == {p \in P : p.comprador_id = comprador_id}

\* SELECT i.quantidade, i.preco_unitario ... WHERE i.pedido_id = ?
SelectItens(I, pedido_id) ==
    LET rows == SelectSeq(I, LAMBDA row : row.pedido_id = pedido_id)
    IN  [k \in DOMAIN rows |->
            [quantidade |-> rows[k].quantidade, preco_unitario |-> rows[k].preco_unitario]]

\* The handler of GET /meus.
ListarMeus(s) ==
    /\ req[s].pc = "handler"
    /\ req[s].route = "meusPedidos"
    /\ LET r == req[s]
           rows == DbQuery(SelectPedidosDoComprador(pedidos, r.user.id)).rows
       IN  \E ok \in BOOLEAN :
              req' = [req EXCEPT ![s] =
                  IF ok
                  THEN Respond(r, 200, [NoReply EXCEPT !.pedidos = PedidoIdsOf(rows)])
                  ELSE Respond([r EXCEPT !.dbError = TRUE], 500, NoReply)]
    /\ UNCHANGED dbVars

\* The handler of GET /meus/:id up to its second await: the SELECT of the
\* order and the 404.
DetalharPedido(s) ==
    /\ req[s].pc = "handler"
    /\ req[s].route = "meuPedido"
    /\ LET r == req[s]
           rows == DbQuery(SelectPedidoDoComprador(pedidos, r.id, r.user.id)).rows
       IN  \E ok \in BOOLEAN :
              req' = [req EXCEPT ![s] =
                  IF ~ok
                  THEN Respond([r EXCEPT !.dbError = TRUE], 500, NoReply)
                  ELSE IF rows = {}
                  THEN Respond(r, 404, [NoReply EXCEPT !.message = "Pedido nao encontrado"])
                  ELSE [r EXCEPT !.pc = "itens",
                                 !.reply = [NoReply EXCEPT
                                     !.pedido_id = (CHOOSE p \in rows : TRUE).id,
                                     !.total = (CHOOSE p \in rows : TRUE).total,
                                     !.novo_status = (CHOOSE p \in rows : TRUE).status]]]
    /\ UNCHANGED dbVars

\* The SELECT of the order's items and the 200.
DetalharItens(s) ==
    /\ req[s].pc = "itens"
    /\ req[s].route = "meuPedido"
    /\ LET r == req[s]
       IN  \E ok \in BOOLEAN :
              req' = [req EXCEPT ![s] =
                  IF ok
                  THEN Respond(r, 200,
                               [r.reply EXCEPT !.itens = SelectItens(itens_pedido, r.id)])
                  ELSE Respond([r EXCEPT !.dbError = TRUE], 500, NoReply)]
    /\ UNCHANGED dbVars

-----------------------------------------------------------------------------
(* SpecBuyer: two buyers (1 and 2) and other callers reading orders that    *)
(* the two buyers have placed.                                              *)

SlotsBuyer == {1, 2}

Buyers == {1, 2}

\* The token of each buyer, a staff token and an expired buyer token.
TokensBuyer ==
    {[sig |-> TRUE, expired |-> FALSE, id |-> b, role |-> "comprador"] : b \in Buyers}
    \cup {[sig |-> TRUE, expired |-> FALSE, id |-> 1, role |-> "dono"],
          [sig |-> TRUE, expired |-> TRUE, id |-> 1, role |-> "comprador"]}

ReceiveBuyer(s) ==
    /\ Free(s)
    /\ \E cred \in Credentials(TokensBuyer) \ {[header |-> "malformed", token |-> NoToken]} :
          \/ req' = [req EXCEPT ![s] = Send("meusPedidos", cred)]
          \/ \E id \in 1..(MaxPedidos + 1) :
                req' = [req EXCEPT ![s] = [Send("meuPedido", cred) EXCEPT !.id = id]]
    /\ UNCHANGED dbVars

InitBuyer ==
    /\ req = [s \in SlotsBuyer |-> IdleReq]
    /\ administradores = {InitialAdmin}
    /\ nextAdminId = 2
    /\ produtos = {[id |-> 1, preco |-> 1000, disponivel |-> TRUE]}
    /\ \E dono \in [1..MaxPedidos -> Buyers] :
          pedidos = {[PlacedOrder(id) EXCEPT !.comprador_id = dono[id]] :
                        id \in 1..MaxPedidos}
    /\ itens_pedido = [id \in 1..MaxPedidos |-> PlacedItem(id)]
    /\ nextPedidoId = MaxPedidos + 1
    /\ strictMode = TRUE

NextBuyer ==
    \E s \in SlotsBuyer :
        \/ ReceiveBuyer(s)
        \/ CompradorAuthMiddleware(s)
        \/ ListarMeus(s)
        \/ DetalharPedido(s)
        \/ DetalharItens(s)

SpecBuyer == InitBuyer /\ [][NextBuyer]_vars

-----------------------------------------------------------------------------
(* Staff management: POST /api/admin/novo-funcionario,                      *)
(* DELETE /api/admin/funcionario/:id                                        *)

\* The values of the column role ENUM('dono', 'gerente', 'funcionario'),
\* which is nullable: a member, NULL ("null"), or the ENUM error value ''
\* ("invalid") a non-strict server stores for a string that is no member.
EnumRoles == {"dono", "gerente", "funcionario"}

\* const { role = 'funcionario' } = req.body: the default replaces an absent
\* (undefined) role only, a null role stays null.
RoleOrDefault(role) == IF role = "absent" THEN "funcionario" ELSE role

\* The role claim jwt.sign embeds for a row: NULL and '' are falsy claims.
ClaimOf(role) == IF role \in EnumRoles THEN role ELSE "none"

EmailsOf(A) == {a.email : a \in A}

\* req.user.role === 'gerente' && roleHierarchy[role] > roleHierarchy['funcionario']
ManagerRuleRefuses(actorRole, role) ==
    actorRole = "gerente" /\ JsGT(RankOf(role), RankOf("funcionario"))

\* role === 'dono' && req.user.role !== 'dono'
OwnerRuleRefuses(actorRole, role) == role = "dono" /\ actorRole # "dono"

\* The handler of novo-funcionario: the role rules, the field check, the
\* INSERT and the response.
NovoFuncionario(s) ==
    /\ req[s].pc = "handler"
    /\ req[s].route = "novoFuncionario"
    /\ LET r == req[s]
           role == RoleOrDefault(r.role)
           stored == IF role \in EnumRoles \cup {"null"} THEN role ELSE "invalid"
           row == [id |-> nextAdminId, email |-> r.email, role |-> stored]
       IN  IF OwnerRuleRefuses(r.user.role, role)
           THEN /\ req' = [req EXCEPT ![s] = Respond(r, 403, NoReply)]
                /\ UNCHANGED <<administradores, nextAdminId>>
           ELSE IF ManagerRuleRefuses(r.user.role, role)
           THEN /\ req' = [req EXCEPT ![s] = Respond(r, 403, NoReply)]
                /\ UNCHANGED <<administradores, nextAdminId>>
           ELSE IF ~r.campos
           THEN /\ req' = [req EXCEPT ![s] = Respond(r, 400, NoReply)]
                /\ UNCHANGED <<administradores, nextAdminId>>
           ELSE \E ok \in BOOLEAN :
                  IF ~ok
                  THEN /\ req' = [req EXCEPT ![s] =
                              Respond([r EXCEPT !.dbError = TRUE], 500, NoReply)]
                       /\ UNCHANGED <<administradores, nextAdminId>>
                  ELSE IF stored = "invalid" /\ strictMode
                  THEN \* Data truncated for column 'role': not ER_DUP_ENTRY
                       /\ req' = [req EXCEPT ![s] = Respond(r, 500, NoReply)]
                       /\ UNCHANGED <<administradores, nextAdminId>>
                  ELSE IF r.email \in EmailsOf(administradores)
                  THEN \* ER_DUP_ENTRY; InnoDB has consumed the AUTO_INCREMENT value
                       /\ req' = [req EXCEPT ![s] = Respond(r, 409, NoReply)]
                       /\ nextAdminId' = nextAdminId + 1
                       /\ UNCHANGED administradores
                  ELSE /\ administradores' = administradores \cup {row}
                       /\ nextAdminId' = nextAdminId + 1
                       /\ req' = [req EXCEPT ![s] =
                              Respond(r, 201, [NoReply EXCEPT !.id = row.id,
                                                              !.role = role])]
    /\ UNCHANGED <<produtos, pedidos, itens_pedido, nextPedidoId, strictMode>>

\* The mutant: the owner rule reads the actor's role instead of the target's.
TargetIsOwnerReadsActor(target, user) ==
    user.role # "dono" /\ \E a \in target : a.role = "dono"

\* result.rows[0].role === 'dono'
TargetIsOwner(target, user) == \E a \in target : a.role = "dono"

\* The handler of DELETE funcionario/:id up to its DELETE: the self-deletion
\* rule, the SELECT of the target's role and the owner rule.
ExcluirCheck(s) ==
    /\ req[s].pc = "handler"
    /\ req[s].route = "excluirFuncionario"
    /\ LET r == req[s]
           target == {a \in administradores : a.id = r.id}
       IN  \E ok \in BOOLEAN :
              req' = [req EXCEPT ![s] =
                  IF r.id = r.user.id
                  THEN Respond(r, 403, NoReply)
                  ELSE IF ~ok
                  THEN Respond([r EXCEPT !.dbError = TRUE], 500, NoReply)
                  ELSE IF target = {}
                  THEN Respond(r, 404, NoReply)
                  ELSE IF TargetIsOwner(target, r.user)
                  THEN Respond(r, 403, NoReply)
                  ELSE [r EXCEPT !.pc = "delete"]]
    /\ UNCHANGED dbVars

\* DELETE FROM administradores WHERE id = ? and the response.
ExcluirDelete(s) ==
    /\ req[s].pc = "delete"
    /\ req[s].route = "excluirFuncionario"
    /\ LET r == req[s]
           target == {a \in administradores : a.id = r.id}
       IN  \E ok \in BOOLEAN :
              IF ~ok
              THEN /\ req' = [req EXCEPT ![s] =
                          Respond([r EXCEPT !.dbError = TRUE], 500, NoReply)]
                   /\ UNCHANGED administradores
              ELSE /\ administradores' = administradores \ target
                   /\ req' = [req EXCEPT ![s] =
                          Respond(r, IF target = {} THEN 404 ELSE 200, NoReply)]
    /\ UNCHANGED <<nextAdminId, produtos, pedidos, itens_pedido, nextPedidoId,
                   strictMode>>

-----------------------------------------------------------------------------
(* SpecStaff: the staff routes, called with the token of an existing staff  *)
(* account, a buyer token, a tampered token or no token.                    *)

MaxAdminId == 3

SlotsStaff == {1}

Emails == {"admin@dono.com", "a@loja.com", "b@loja.com"}

RoleInputs == {"absent", "null", "dono", "gerente", "funcionario", "superadmin"}

\* The token the login route issues for each stored account, a buyer token
\* and a tampered token.
TokensStaff ==
    {[sig |-> TRUE, expired |-> FALSE, id |-> a.id, role |-> ClaimOf(a.role)] :
        a \in administradores}
    \cup {[sig |-> TRUE, expired |-> FALSE, id |-> 1, role |-> "comprador"],
          [sig |-> FALSE, expired |-> FALSE, id |-> 1, role |-> "dono"]}

ReceiveStaff(s) ==
    /\ Free(s)
    /\ \E cred \in Credentials(TokensStaff) \ {[header |-> "malformed", token |-> NoToken]} :
          \/ /\ nextAdminId <= MaxAdminId
             /\ \E role \in RoleInputs, email \in Emails :
                   req' = [req EXCEPT ![s] =
                       [Send("novoFuncionario", cred) EXCEPT
                           !.role = role, !.email = email, !.campos = TRUE]]
          \/ /\ nextAdminId <= MaxAdminId
             /\ req' = [req EXCEPT ![s] =
                    [Send("novoFuncionario", cred) EXCEPT
                        !.role = "absent", !.email = "a@loja.com", !.campos = FALSE]]
          \/ \E id \in 1..(MaxAdminId + 1) :
                req' = [req EXCEPT ![s] =
                    [Send("excluirFuncionario", cred) EXCEPT !.id = id]]
    /\ UNCHANGED dbVars

InitStaff ==
    /\ req = [s \in SlotsStaff |-> IdleReq]
    /\ produtos = {}
    /\ EmptyStore

NextStaff ==
    \E s \in SlotsStaff :
        \/ ReceiveStaff(s)
        \/ AuthMiddleware(s)
        \/ PermissionGate(s)
        \/ NovoFuncionario(s)
        \/ ExcluirCheck(s)
        \/ ExcluirDelete(s)

SpecStaff == InitStaff /\ [][NextStaff]_vars

-----------------------------------------------------------------------------
(* Order creation: POST /api/pedidos *)

\* A JSON value sent as item.quantidade: a number, kept in tenths, the
\* number 1e-7, or a string that holds no number.
Num(tenths) == [kind |-> "num", tenths |-> tenths]

Text == [kind |-> "text", tenths |-> 0]

\* The JSON number 1e-7 (0.0000001), whose decimal notation in JavaScript is
\* the string "1e-7"; in tenths it is 0.
Exp == [kind |-> "exp", tenths |-> 0]

\* What a client may send as one element of itens; preco_unitario is a price
\* the client adds on its own (0 when it adds none).
ItemInputs ==
    [produto_id : {1, 2, 3},
     quantidade : {Num(0), Num(20), Exp, Text},
     preco_unitario : {0, 1}]

\* parseInt(item.quantidade): the integer that starts the value's decimal
\* notation (1.7 gives 1, and 1e-7, written "1e-7", gives 1), NaN when there
\* is none.
ParseInt(q) ==
    IF q.kind = "num"
    THEN [nan |-> FALSE,
          val |-> IF q.tenths >= 0 THEN q.tenths \div 10 ELSE -((-q.tenths) \div 10)]
    ELSE IF q.kind = "exp"
    THEN [nan |-> FALSE, val |-> 1]
    ELSE [nan |-> TRUE, val |-> 0]

\* The value MySQL stores in the column quantidade INT for a number bound as
\* a DOUBLE parameter: the nearest integer, a tie going to the even one.
DbInt(q) ==
    LET t == q.tenths
        lo == t \div 10
        rest == t % 10
    IN  IF rest < 5 THEN lo
        ELSE IF rest > 5 THEN lo + 1
        ELSE IF lo % 2 = 0 THEN lo ELSE lo + 1

\* dbItens.push({ ...item, preco_unitario: precoUnitario })
DbItem(item, precoUnitario) ==
    [produto_id |-> item.produto_id, quantidade |-> item.quantidade,
     preco_unitario |-> precoUnitario]

\* INSERT INTO itens_pedido (pedido_id, produto_id, quantidade, preco_unitario)
ItemRow(pedidoId, dbItem) ==
    [pedido_id |-> pedidoId, produto_id |-> dbItem.produto_id,
     quantidade |-> DbInt(dbItem.quantidade),
     preco_unitario |-> dbItem.preco_unitario]

RangeOf(seq) == {seq[k] : k \in DOMAIN seq}

\* The mutant: the commit replaces the tables by the rows of the transaction.
CommitDropsOthers(P, I, tx) == [pedidos |-> RangeOf(tx.pedido), itens |-> tx.itens]

\* The mutant: the commit keeps the header and loses the line items.
CommitHeaderOnly(P, I, tx) == [pedidos |-> P \cup RangeOf(tx.pedido), itens |-> I]

\* COMMIT: the rows of the transaction join the committed tables.
Commit(P, I, tx) == [pedidos |-> P \cup RangeOf(tx.pedido), itens |-> I \o tx.itens]

\* The mutant: the item rows were written outside the transaction and stay.
RollbackKeepsItems(P, I, tx) == [pedidos |-> P, itens |-> I \o tx.itens]

\* ROLLBACK: the rows of the transaction are dropped.
Rollback(P, I, tx) == [pedidos |-> P, itens |-> I]

\* finally { if (connection) connection.release() }
Release(r) ==
    IF r.connection = "held"
    THEN [r EXCEPT !.connection = "released", !.log = Append(@, "RELEASE")]
    ELSE r

\* The mutant: the early return leaves without the finally block running.
AbortKeepsConnection(r, code) ==
    Respond([r EXCEPT !.tx = NoTx, !.txState = "rolledback",
                      !.log = Append(@, "ROLLBACK")],
            code, NoReply)

\* An early return of the handler: ROLLBACK, the response, then finally.
Abort(r, code) ==
    Release(Respond([r EXCEPT !.tx = NoTx, !.txState = "rolledback",
                              !.log = Append(@, "ROLLBACK")],
                    code, NoReply))

\* The mutant: the catch block answers 500 first and rolls back afterwards.
CatchRespondsFirst(r, rbOk, outcome) ==
    LET f == [r EXCEPT !.dbError = TRUE]
        sent == Respond(f, 500, NoReply)
    IN  IF f.connection # "held"
        THEN sent
        ELSE Release([sent EXCEPT !.tx = NoTx, !.txState = "rolledback",
                                  !.log = Append(@, "ROLLBACK")])

\* The catch block after a failed statement: ROLLBACK when a connection was
\* obtained, the 500 response, then finally.  When the ROLLBACK fails too
\* (rbOk is false) the catch block throws: finally still runs, the server
\* drops the transaction and the handler's promise rejects.
Catch(r, rbOk, outcome) ==
    LET f == [r EXCEPT !.dbError = TRUE]
    IN  IF f.connection # "held"
        THEN Respond(f, 500, NoReply)
        ELSE IF rbOk
        THEN Abort(f, 500)
        ELSE Release(Reject([f EXCEPT !.tx = NoTx, !.txState = "rolledback",
                                      !.log = Append(@, "ROLLBACK")],
                            outcome))

\* The handler up to its first await: the check of endereco and itens.
CriarValidate(s) ==
    /\ req[s].pc = "handler"
    /\ req[s].route = "criarPedido"
    /\ LET r == req[s]
       IN  req' = [req EXCEPT ![s] =
                IF ~r.endereco \/ r.nItens = 0
                THEN Respond(r, 400, NoReply)
                ELSE [r EXCEPT !.pc = "connect"]]
    /\ UNCHANGED dbVars

\* The ways one step of the handler can go in the store: its statement
\* succeeds or fails (ok), the ROLLBACK of an early return succeeds or fails
\* (early), the ROLLBACK of the catch block succeeds or fails (rbOk), and what
\* the client sees when the catch block throws (outcome).  Combinations that
\* differ only in a choice the step never comes to are listed once.
Faults ==
    {f \in [ok : BOOLEAN, early : BOOLEAN, rbOk : BOOLEAN, outcome : UnhandledRejection] :
        /\ f.rbOk => f.outcome = 500
        /\ ~f.ok => f.early
        /\ (f.ok /\ f.early) => f.rbOk}

\* The same for a step that has no early return.
StatementFaults == {f \in Faults : f.early}

\* db.getConnection() and START TRANSACTION.
CriarConnect(s) ==
    /\ req[s].pc = "connect"
    /\ LET r == req[s]
       IN  \E got \in BOOLEAN, f \in StatementFaults :
              req' = [req EXCEPT ![s] =
                  IF ~got
                  THEN Catch(r, f.rbOk, f.outcome)
                  ELSE IF ~f.ok
                  THEN Catch([r EXCEPT !.connection = "held"], f.rbOk, f.outcome)
                  ELSE [r EXCEPT !.connection = "held", !.txState = "open",
                                 !.log = Append(@, "START"), !.pc = "validate"]]
    /\ UNCHANGED dbVars

\* The mutant: the check looks at the number of rows only.
IndisponivelSoAusente(produtoRows) == produtoRows = {}

\* produtoRows.length === 0 || !produtoRows[0].disponivel
Indisponivel(produtoRows) ==
    produtoRows = {} \/ ~(CHOOSE p \in produtoRows : TRUE).disponivel

\* One turn of the first loop: the SELECT of the item's product, the checks
\* of the product and of the quantity, the accumulation of the total.  The
\* ROLLBACK of an early return may itself fail (early is false) and throw
\* into the catch block.
CriarValidaItem(s) ==
    /\ req[s].pc = "validate"
    /\ \E item \in ItemInputs, f \in Faults :
              LET r == [req[s] EXCEPT !.item = item]
                  ok == f.ok
                  early == f.early
                  rbOk == f.rbOk
                  outcome == f.outcome
                  found == {p \in produtos : p.id = item.produto_id}
                  produtoRows == ArrayDestructure(ConnExecute(found)).first
                  quantidade == ParseInt(item.quantidade)
              IN  req' = [req EXCEPT ![s] =
                      IF ~ok
                      THEN Catch(r, rbOk, outcome)
                      ELSE IF Indisponivel(produtoRows)
                      THEN IF early THEN Abort(r, 404)
                           ELSE Catch([r EXCEPT !.log = Append(@, "ROLLBACK")],
                                      rbOk, outcome)
                      ELSE IF quantidade.nan \/ quantidade.val <= 0
                      THEN IF early THEN Abort(r, 400)
                           ELSE Catch([r EXCEPT !.log = Append(@, "ROLLBACK")],
                                      rbOk, outcome)
                      ELSE LET preco == (CHOOSE p \in produtoRows : TRUE).preco
                           IN  [r EXCEPT !.total = @ + preco * quantidade.val,
                                         !.dbItens = Append(@, DbItem(item, preco)),
                                         !.item = IF r.i = r.nItens THEN IdleReq.item
                                                  ELSE item,
                                         !.i = IF r.i = r.nItens THEN 1 ELSE r.i + 1,
                                         !.pc = IF r.i = r.nItens THEN "insertPedido"
                                                ELSE "validate"]]
    /\ UNCHANGED dbVars

\* INSERT INTO pedidos (comprador_id, total, endereco, status).  The
\* AUTO_INCREMENT value it takes is not given back by a rollback.
CriarInserePedido(s) ==
    /\ req[s].pc = "insertPedido"
    /\ LET r == req[s]
           row == [id |-> nextPedidoId, comprador_id |-> r.user.id,
                   total |-> r.total, endereco |-> "rua A", status |-> "novo"]
       IN  \E f \in StatementFaults :
              IF ~f.ok
              THEN /\ req' = [req EXCEPT ![s] = Catch(r, f.rbOk, f.outcome)]
                   /\ UNCHANGED nextPedidoId
              ELSE /\ req' = [req EXCEPT ![s] =
                          [r EXCEPT !.tx.pedido = <<row>>, !.pedidoId = nextPedidoId,
                                    !.pc = "insertItens"]]
                   /\ nextPedidoId' = nextPedidoId + 1
    /\ UNCHANGED <<administradores, nextAdminId, produtos, pedidos, itens_pedido,
                   strictMode>>

\* One turn of the second loop: the INSERT of one line item.
CriarInsereItem(s) ==
    /\ req[s].pc = "insertItens"
    /\ LET r == req[s]
       IN  \E f \in StatementFaults :
              IF ~f.ok
              THEN LET after == Rollback(pedidos, itens_pedido, r.tx)
                   IN  /\ pedidos' = after.pedidos
                       /\ itens_pedido' = after.itens
                       /\ req' = [req EXCEPT ![s] = Catch(r, f.rbOk, f.outcome)]
              ELSE /\ req' = [req EXCEPT ![s] =
                          [r EXCEPT !.tx.itens = Append(@, ItemRow(r.pedidoId, r.dbItens[r.i])),
                                    !.i = r.i + 1,
                                    !.pc = IF r.i = Len(r.dbItens) THEN "commit"
                                           ELSE "insertItens"]]
                   /\ UNCHANGED <<pedidos, itens_pedido>>
    /\ UNCHANGED <<administradores, nextAdminId, produtos, nextPedidoId, strictMode>>

\* COMMIT, the 201 response, then finally.
CriarCommit(s) ==
    /\ req[s].pc = "commit"
    /\ LET r == req[s]
       IN  \E f \in StatementFaults :
              LET after == IF f.ok THEN Commit(pedidos, itens_pedido, r.tx)
                           ELSE Rollback(pedidos, itens_pedido, r.tx)
              IN  /\ pedidos' = after.pedidos
                  /\ itens_pedido' = after.itens
                  /\ req' = [req EXCEPT ![s] =
                         IF f.ok
                         THEN Release(Respond(
                                  [r EXCEPT !.tx = NoTx, !.txState = "committed",
                                            !.log = Append(@, "COMMIT")],
                                  201,
                                  [NoReply EXCEPT !.pedido_id = r.pedidoId,
                                                  !.total = r.total,
                                                  !.novo_status = "novo"]))
                         ELSE Catch(r, f.rbOk, f.outcome)]
    /\ UNCHANGED <<administradores, nextAdminId, produtos, nextPedidoId, strictMode>>

-----------------------------------------------------------------------------
(* SpecOrder: buyers and other callers placing orders against a catalog of  *)
(* one available product (1), one unavailable product (2) and no product 3. *)

MaxItens == 2

SlotsOrder == {1}

TokensOrder ==
    {[sig |-> TRUE, expired |-> FALSE, id |-> 1, role |-> "comprador"],
     [sig |-> TRUE, expired |-> FALSE, id |-> 1, role |-> "dono"],
     [sig |-> TRUE, expired |-> TRUE, id |-> 1, role |-> "comprador"]}

\* The bodies a client sends: an address with 0 to MaxItens items, or one
\* item and no address.
BodiesOrder ==
    {[endereco |-> TRUE, nItens |-> n] : n \in 0..MaxItens}
    \cup {[endereco |-> FALSE, nItens |-> 1]}

\* A request with the valid buyer token and any body, or with any other
\* credential, which the middleware refuses without reading the body.
ReceiveOrder(s) ==
    /\ Free(s)
    /\ nextPedidoId <= MaxPedidos
    /\ \E cred \in Credentials(TokensOrder), body \in BodiesOrder :
          /\ (cred.header = "bearer" /\ JwtVerify(cred.token)
                 /\ cred.token.role = "comprador")
             \/ body = [endereco |-> TRUE, nItens |-> 1]
          /\ req' = [req EXCEPT ![s] =
                 [Send("criarPedido", cred) EXCEPT !.endereco = body.endereco,
                                                   !.nItens = body.nItens]]
    /\ UNCHANGED dbVars

InitOrder ==
    /\ req = [s \in SlotsOrder |-> IdleReq]
    /\ produtos = {[id |-> 1, preco |-> 1000, disponivel |-> TRUE],
                   [id |-> 2, preco |-> 550, disponivel |-> FALSE]}
    /\ EmptyStore
    /\ strictMode = TRUE

NextOrder ==
    \E s \in SlotsOrder :
        \/ ReceiveOrder(s)
        \/ CompradorAuthMiddleware(s)
        \/ CriarValidate(s)
        \/ CriarConnect(s)
        \/ CriarValidaItem(s)
        \/ CriarInserePedido(s)
        \/ CriarInsereItem(s)
        \/ CriarCommit(s)

SpecOrder == InitOrder /\ [][NextOrder]_vars

-----------------------------------------------------------------------------
(* SpecConc: two buyers placing orders at the same time, each request on    *)
(* its own pooled connection, the steps of the two handlers interleaving    *)
(* at every await.                                                          *)

SlotsConc == {1, 2}

\* The longest item list of a request in the specifications that interleave
\* order creation with other requests.
MaxItensMisto == 1

\* The token of the buyer whose id is the slot's number.
TokenOfBuyer(b) == [sig |-> TRUE, expired |-> FALSE, id |-> b, role |-> "comprador"]

ReceiveConc(s) ==
    /\ req[s].pc = "idle"
    /\ \E n \in 1..MaxItensMisto :
          req' = [req EXCEPT ![s] =
              [Send("criarPedido", [header |-> "bearer", token |-> TokenOfBuyer(s)])
                  EXCEPT !.endereco = TRUE, !.nItens = n]]
    /\ UNCHANGED dbVars

InitConc ==
    /\ req = [s \in SlotsConc |-> IdleReq]
    /\ produtos = {[id |-> 1, preco |-> 1000, disponivel |-> TRUE],
                   [id |-> 2, preco |-> 550, disponivel |-> FALSE]}
    /\ EmptyStore
    /\ strictMode = TRUE

NextConc ==
    \E s \in SlotsConc :
        \/ ReceiveConc(s)
        \/ CompradorAuthMiddleware(s)
        \/ CriarValidate(s)
        \/ CriarConnect(s)
        \/ CriarValidaItem(s)
        \/ CriarInserePedido(s)
        \/ CriarInsereItem(s)
        \/ CriarCommit(s)

SpecConc == InitConc /\ [][NextConc]_vars

-----------------------------------------------------------------------------
(* Catalog: GET /api/produtos/:id, PUT /api/produtos/:id *)

\* UPDATE produtos SET preco = ?, disponivel = ? WHERE id = ?, with the
\* columns the body names.
UpdateProduto(C, id, preco, disponivel) ==
    {IF p.id = id
     THEN [p EXCEPT !.preco = IF preco > 0 THEN preco ELSE @,
                    !.disponivel = IF disponivel = "absent" THEN @
                                   ELSE disponivel = "true"]
     ELSE p : p \in C}

\* The handler of PUT /api/produtos/:id.  The UPDATE runs through db.query
\* and its result is destructured as an array inside the try block: the
\* statement has taken effect when the TypeError reaches the catch block.
AtualizarProduto(s) ==
    /\ req[s].pc = "handler"
    /\ req[s].route = "atualizarProduto"
    /\ LET r == req[s]
           d == ArrayDestructure(DbQuery(<<>>))
       IN  IF r.preco = -1
           THEN /\ req' = [req EXCEPT ![s] = Respond(r, 400, NoReply)]
                /\ UNCHANGED produtos
           ELSE IF r.preco = 0 /\ r.disponivel = "absent"
           THEN /\ req' = [req EXCEPT ![s] = Respond(r, 400, NoReply)]
                /\ UNCHANGED produtos
           ELSE \E ok \in BOOLEAN :
                  IF ~ok
                  THEN /\ req' = [req EXCEPT ![s] =
                              Respond([r EXCEPT !.dbError = TRUE], 500, NoReply)]
                       /\ UNCHANGED produtos
                  ELSE /\ produtos' = UpdateProduto(produtos, r.id, r.preco, r.disponivel)
                       /\ req' = [req EXCEPT ![s] =
                              IF d.threw
                              THEN Respond(r, 500, NoReply)
                              ELSE IF r.id \notin {p.id : p \in produtos}
                              THEN Respond(r, 404, NoReply)
                              ELSE Respond(r, 200, NoReply)]
    /\ UNCHANGED <<administradores, nextAdminId, pedidos, itens_pedido, nextPedidoId,
                   strictMode>>

\* The handler of GET /api/produtos/:id.  Whether JSON.parse accepts the
\* value the driver returns for imagens_json depends on the driver.
LerProduto(s) ==
    /\ req[s].pc = "handler"
    /\ req[s].route = "lerProduto"
    /\ LET r == req[s]
           rows == DbQuery({p \in produtos : p.id = r.id}).rows
       IN  \E ok \in BOOLEAN, parsed \in BOOLEAN :
              req' = [req EXCEPT ![s] =
                  IF ~ok
                  THEN Respond([r EXCEPT !.dbError = TRUE], 500, NoReply)
                  ELSE IF rows = {}
                  THEN Respond(r, 404, NoReply)
                  ELSE IF ~parsed
                  THEN Respond(r, 500, NoReply)
                  ELSE Respond(r, 200, [NoReply EXCEPT
                                           !.id = r.id,
                                           !.total = (CHOOSE p \in rows : TRUE).preco])]
    /\ UNCHANGED dbVars

-----------------------------------------------------------------------------
(* SpecFrozen: orders being placed while staff change the catalog and move  *)
(* orders along, and buyers read products.                                  *)

SlotsFrozen == {1}

TokensFrozen ==
    {[sig |-> TRUE, expired |-> FALSE, id |-> 1, role |-> "comprador"],
     [sig |-> TRUE, expired |-> FALSE, id |-> 1, role |-> "dono"]}

\* The bodies of a product update: a new price, an availability, a price
\* that is no number, nothing.
BodiesProduto ==
    {[preco |-> 1200, disponivel |-> "absent"],
     [preco |-> 0, disponivel |-> "false"],
     [preco |-> 0, disponivel |-> "true"],
     [preco |-> -1, disponivel |-> "absent"],
     [preco |-> 0, disponivel |-> "absent"]}

ReceiveFrozen(s) ==
    /\ Free(s)
    /\ \E token \in TokensFrozen :
          LET cred == [header |-> "bearer", token |-> token]
          IN  \/ /\ nextPedidoId <= MaxPedidos
                 /\ \E n \in 1..MaxItensMisto :
                       req' = [req EXCEPT ![s] =
                           [Send("criarPedido", cred) EXCEPT !.endereco = TRUE,
                                                             !.nItens = n]]
              \/ \E id \in {1, 3}, body \in BodiesProduto :
                    req' = [req EXCEPT ![s] =
                        [Send("atualizarProduto", cred) EXCEPT
                            !.id = id, !.preco = body.preco,
                            !.disponivel = body.disponivel]]
              \/ req' = [req EXCEPT ![s] = [Send("lerProduto", cred) EXCEPT !.id = 1]]
              \/ \E id \in 1..MaxPedidos, st \in {"aceito", "cancelado"} :
                    req' = [req EXCEPT ![s] =
                        [Send("mudarStatus", cred) EXCEPT !.id = id, !.novo_status = st]]
    /\ UNCHANGED dbVars

InitFrozen ==
    /\ req = [s \in SlotsFrozen |-> IdleReq]
    /\ produtos = {[id |-> 1, preco |-> 1000, disponivel |-> TRUE],
                   [id |-> 2, preco |-> 550, disponivel |-> FALSE]}
    /\ EmptyStore
    /\ strictMode = TRUE

NextFrozen ==
    \E s \in SlotsFrozen :
        \/ ReceiveFrozen(s)
        \/ AuthMiddleware(s)
        \/ CompradorAuthMiddleware(s)
        \/ PermissionGate(s)
        \/ CriarValidate(s)
        \/ CriarConnect(s)
        \/ CriarValidaItem(s)
        \/ CriarInserePedido(s)
        \/ CriarInsereItem(s)
        \/ CriarCommit(s)
        \/ AtualizarProduto(s)
        \/ LerProduto(s)
        \/ StatusValidate(s)
        \/ StatusGuard(s)
        \/ StatusUpdate(s)

SpecFrozen == InitFrozen /\ [][NextFrozen]_vars

-----------------------------------------------------------------------------
(* Order deletion: DELETE /api/pedidos/admin/:id *)

\* The mutant: the header goes and its line items stay.
DeleteHeaderOnly(P, I, id) ==
    [pedidos |-> {p \in P : p.id # id}, itens |-> I]

\* The committed effect of DELETE FROM itens_pedido WHERE pedido_id = ? and
\* DELETE FROM pedidos WHERE id = ?, the second cascading to the line items
\* (FOREIGN KEY (pedido_id) REFERENCES pedidos(id) ON DELETE CASCADE).
DeleteCascade(P, I, id) ==
    [pedidos |-> {p \in P : p.id # id},
     itens |-> SelectSeq(I, LAMBDA row : row.pedido_id # id)]

\* The rows of order id are locked by the open transaction of another
\* request, which has inserted them and not committed.  A DELETE of these
\* rows waits.
RowsLocked(s, id) ==
    \E t \in DOMAIN req \ {s} :
        /\ req[t].txState = "open"
        /\ \E k \in DOMAIN req[t].tx.pedido : req[t].tx.pedido[k].id = id

\* db.getConnection() and START TRANSACTION.
DeletarConnect(s) ==
    /\ req[s].pc = "handler"
    /\ req[s].route = "deletarPedido"
    /\ LET r == req[s]
       IN  \E got \in BOOLEAN, f \in StatementFaults :
              req' = [req EXCEPT ![s] =
                  IF ~got
                  THEN Catch(r, f.rbOk, f.outcome)
                  ELSE IF ~f.ok
                  THEN Catch([r EXCEPT !.connection = "held"], f.rbOk, f.outcome)
                  ELSE [r EXCEPT !.connection = "held", !.txState = "open",
                                 !.log = Append(@, "START"), !.pc = "delItens"]]
    /\ UNCHANGED dbVars

\* DELETE FROM itens_pedido WHERE pedido_id = ?
DeletarItens(s) ==
    /\ req[s].pc = "delItens"
    /\ ~RowsLocked(s, req[s].id)
    /\ LET r == req[s]
       IN  \E f \in StatementFaults :
              req' = [req EXCEPT ![s] =
                  IF ~f.ok
                  THEN Catch(r, f.rbOk, f.outcome)
                  ELSE [r EXCEPT !.pc = "delPedido"]]
    /\ UNCHANGED dbVars

\* DELETE FROM pedidos WHERE id = ? and the check of affectedRows, with the
\* early return of an order that does not exist.
DeletarPedido(s) ==
    /\ req[s].pc = "delPedido"
    /\ ~RowsLocked(s, req[s].id)
    /\ LET r == req[s]
           found == {p \in pedidos : p.id = r.id}
           pedidoResult == ArrayDestructure(ConnExecute(found)).first
       IN  \E f \in Faults :
              req' = [req EXCEPT ![s] =
                  IF ~f.ok
                  THEN Catch(r, f.rbOk, f.outcome)
                  ELSE IF Cardinality(pedidoResult) = 0
                  THEN IF f.early THEN Abort(r, 404)
                       ELSE Catch([r EXCEPT !.log = Append(@, "ROLLBACK")],
                                  f.rbOk, f.outcome)
                  ELSE [r EXCEPT !.affectedRows = Cardinality(pedidoResult),
                                 !.pc = "delCommit"]]
    /\ UNCHANGED dbVars

\* COMMIT, the 200 response, then finally.
DeletarCommit(s) ==
    /\ req[s].pc = "delCommit"
    /\ LET r == req[s]
       IN  \E f \in StatementFaults :
              LET after == IF f.ok THEN DeleteCascade(pedidos, itens_pedido, r.id)
                           ELSE Rollback(pedidos, itens_pedido, r.tx)
              IN  /\ pedidos' = after.pedidos
                  /\ itens_pedido' = after.itens
                  /\ req' = [req EXCEPT ![s] =
                         IF f.ok
                         THEN Release(Respond(
                                  [r EXCEPT !.txState = "committed",
                                            !.log = Append(@, "COMMIT")],
                                  200, NoReply))
                         ELSE Catch(r, f.rbOk, f.outcome)]
    /\ UNCHANGED <<administradores, nextAdminId, produtos, nextPedidoId, strictMode>>

-----------------------------------------------------------------------------
(* SpecDelete: a buyer placing orders of two items (slot 1) while a manager *)
(* asks for orders to be deleted (slot 2).                                  *)

SlotsDelete == {1, 2}

\* A manager's token.
TokensDelete == {[sig |-> TRUE, expired |-> FALSE, id |-> 1, role |-> "gerente"]}

ReceiveDelete(s) ==
    /\ Free(s)
    /\ \/ /\ s = 1
          /\ nextPedidoId <= MaxPedidos
          /\ req' = [req EXCEPT ![s] =
                 [Send("criarPedido", [header |-> "bearer", token |-> TokenOfBuyer(1)])
                     EXCEPT !.endereco = TRUE, !.nItens = 2]]
       \/ /\ s = 2
          /\ \E token \in TokensDelete, id \in 1..MaxPedidos :
                req' = [req EXCEPT ![s] =
                    [Send("deletarPedido", [header |-> "bearer", token |-> token])
                        EXCEPT !.id = id]]
    /\ UNCHANGED dbVars

InitDelete ==
    /\ req = [s \in SlotsDelete |-> IdleReq]
    /\ produtos = {[id |-> 1, preco |-> 1000, disponivel |-> TRUE],
                   [id |-> 2, preco |-> 550, disponivel |-> FALSE]}
    /\ EmptyStore
    /\ strictMode = TRUE

NextDelete ==
    \E s \in SlotsDelete :
        \/ ReceiveDelete(s)
        \/ AuthMiddleware(s)
        \/ CompradorAuthMiddleware(s)
        \/ PermissionGate(s)
        \/ CriarValidate(s)
        \/ CriarConnect(s)
        \/ CriarValidaItem(s)
        \/ CriarInserePedido(s)
        \/ CriarInsereItem(s)
        \/ CriarCommit(s)
        \/ DeletarConnect(s)
        \/ DeletarItens(s)
        \/ DeletarPedido(s)
        \/ DeletarCommit(s)

SpecDelete == InitDelete /\ [][NextDelete]_vars

-----------------------------------------------------------------------------
(* SpecRace: two employees changing the status of the same orders at the    *)
(* same time, the steps of the two handlers interleaving at every await.    *)

SlotsRace == {1, 2}

TokenOfEmployee == [sig |-> TRUE, expired |-> FALSE, id |-> 2, role |-> "funcionario"]

ReceiveRace(s) ==
    /\ Free(s)
    /\ \E id \in 1..MaxPedidos, st \in {"preparando", "saiu_entrega", "cancelado"} :
          req' = [req EXCEPT ![s] =
              [Send("mudarStatus", [header |-> "bearer", token |-> TokenOfEmployee])
                  EXCEPT !.id = id, !.novo_status = st]]
    /\ UNCHANGED dbVars

NextRace ==
    \E s \in SlotsRace :
        \/ ReceiveRace(s)
        \/ AuthMiddleware(s)
        \/ PermissionGate(s)
        \/ StatusValidate(s)
        \/ StatusGuard(s)
        \/ StatusUpdate(s)

InitRace ==
    /\ req = [s \in SlotsRace |-> IdleReq]
    /\ administradores = {InitialAdmin}
    /\ nextAdminId = 2
    /\ produtos = {[id |-> 1, preco |-> 1000, disponivel |-> TRUE]}
    /\ pedidos = {PlacedOrder(id) : id \in 1..MaxPedidos}
    /\ itens_pedido = [id \in 1..MaxPedidos |-> PlacedItem(id)]
    /\ nextPedidoId = MaxPedidos + 1
    /\ strictMode = TRUE

SpecRace == InitRace /\ [][NextRace]_vars

-----------------------------------------------------------------------------
(* SpecStale: the owner, a manager and an employee have logged in; accounts *)
(* are then deleted while the tokens issued at login go on being used.      *)

\* GET /api/admin/relatorios-gerenciais: answers with req.user, reading no
\* table.
Relatorios(s) ==
    /\ req[s].pc = "handler"
    /\ req[s].route = "relatorios"
    /\ req' = [req EXCEPT ![s] =
           Respond(req[s], 200, [NoReply EXCEPT !.id = req[s].user.id,
                                                !.role = req[s].user.role])]
    /\ UNCHANGED dbVars

SlotsStale == {1}

\* The accounts the owner has created with novo-funcionario.
StaffCreated ==
    {[id |-> 2, email |-> "a@loja.com", role |-> "gerente"],
     [id |-> 3, email |-> "b@loja.com", role |-> "funcionario"]}

\* The tokens the login route issued for the stored accounts, a token of the
\* manager that has expired since, and a forged owner token.
TokensStale ==
    {[sig |-> TRUE, expired |-> FALSE, id |-> a.id, role |-> ClaimOf(a.role)] :
        a \in {InitialAdmin} \cup StaffCreated}
    \cup {[sig |-> TRUE, expired |-> TRUE, id |-> 2, role |-> "gerente"],
          [sig |-> FALSE, expired |-> FALSE, id |-> 1, role |-> "dono"]}

ReceiveStale(s) ==
    /\ Free(s)
    /\ \E token \in TokensStale :
          LET cred == [header |-> "bearer", token |-> token]
          IN  \/ \E id \in {a.id : a \in {InitialAdmin} \cup StaffCreated} :
                    req' = [req EXCEPT ![s] =
                        [Send("excluirFuncionario", cred) EXCEPT !.id = id]]
              \/ req' = [req EXCEPT ![s] = Send("relatorios", cred)]
    /\ UNCHANGED dbVars

InitStale ==
    /\ req = [s \in SlotsStale |-> IdleReq]
    /\ administradores = {InitialAdmin} \cup StaffCreated
    /\ nextAdminId = 4
    /\ produtos = {}
    /\ pedidos = {}
    /\ itens_pedido = <<>>
    /\ nextPedidoId = 1
    /\ strictMode = TRUE

NextStale ==
    \E s \in SlotsStale :
        \/ ReceiveStale(s)
        \/ AuthMiddleware(s)
        \/ PermissionGate(s)
        \/ ExcluirCheck(s)
        \/ ExcluirDelete(s)
        \/ Relatorios(s)

SpecStale == InitStale /\ [][NextStale]_vars

-----------------------------------------------------------------------------
(* SpecCarts: two buyers placing orders at the same time, with item lists   *)
(* that may be empty.                                                       *)

SlotsCarts == {1, 2}

ReceiveCarts(s) ==
    /\ req[s].pc = "idle"
    /\ \E n \in 0..MaxItensMisto :
          req' = [req EXCEPT ![s] =
              [Send("criarPedido", [header |-> "bearer", token |-> TokenOfBuyer(s)])
                  EXCEPT !.endereco = TRUE, !.nItens = n]]
    /\ UNCHANGED dbVars

InitCarts ==
    /\ req = [s \in SlotsCarts |-> IdleReq]
    /\ produtos = {[id |-> 1, preco |-> 1000, disponivel |-> TRUE],
                   [id |-> 2, preco |-> 550, disponivel |-> FALSE]}
    /\ EmptyStore
    /\ strictMode = TRUE

NextCarts ==
    \E s \in SlotsCarts :
        \/ ReceiveCarts(s)
        \/ CompradorAuthMiddleware(s)
        \/ CriarValidate(s)
        \/ CriarConnect(s)
        \/ CriarValidaItem(s)
        \/ CriarInserePedido(s)
        \/ CriarInsereItem(s)
        \/ CriarCommit(s)

SpecCarts == InitCarts /\ [][NextCarts]_vars

-----------------------------------------------------------------------------
(* C7: the role gate is monotonic in the rank of the caller.  Of two       *)
(* decided requests behind the same checkPermission(minRole), if the one   *)
(* with the lower staff role was let through, so was the one with the      *)
(* higher role; and a staff role is let through exactly when it is minRole *)
(* or outranks it (owner > manager > employee).                            *)

Outranks == {<<"dono", "gerente">>, <<"dono", "funcionario">>,
             <<"gerente", "funcionario">>}

Authenticated(r) == r.user.id # 0

GateDecided(r) ==
    /\ r.route \in GatedRoutes
    /\ Authenticated(r)
    /\ r.pc \in {"handler", "done"}

GatePassed(r) == r.pc = "handler"

C7_RankMonotonic ==
    /\ \A s1, s2 \in DOMAIN req :
          ( /\ GateDecided(req[s1]) /\ GateDecided(req[s2])
            /\ RouteRequired(req[s1].route) = RouteRequired(req[s2].route)
            /\ GatePassed(req[s1])
            /\ <<req[s2].user.role, req[s1].user.role>> \in Outranks )
          => GatePassed(req[s2])
    /\ \A s \in DOMAIN req :
          (GateDecided(req[s]) /\ req[s].user.role \in StaffRoles)
          => ( GatePassed(req[s])
               <=> ( \/ req[s].user.role = RouteRequired(req[s].route)
                     \/ <<req[s].user.role, RouteRequired(req[s].route)>> \in Outranks ) )

C7_Witness ==
    \E s1, s2 \in DOMAIN req :
        /\ GateDecided(req[s1]) /\ GateDecided(req[s2])
        /\ RouteRequired(req[s1].route) = "gerente"
        /\ RouteRequired(req[s2].route) = "gerente"
        /\ req[s1].user.role = "gerente" /\ GatePassed(req[s1])
        /\ req[s2].user.role = "dono" /\ GatePassed(req[s2])

(* C8: the role gate fails closed.  Behind every checkPermission, a caller *)
(* whose token carries no role, or a role that is not a staff role (the    *)
(* buyer marker included), never reaches the handler and is answered 403.  *)

C8_FailsClosed ==
    \A s \in DOMAIN req :
        ( /\ req[s].route \in GatedRoutes
          /\ req[s].token.role \notin StaffRoles )
        => /\ req[s].pc # "handler"
           /\ (req[s].pc = "done" /\ Authenticated(req[s])) => req[s].status = 403

C8_Witness ==
    \E s \in DOMAIN req :
        /\ req[s].route \in GatedRoutes
        /\ Authenticated(req[s])
        /\ req[s].user.role = "comprador"
        /\ req[s].pc = "done" /\ req[s].status = 403

-----------------------------------------------------------------------------
(* Claims about the order status transitions, under SpecStatus *)

Ended == {"done", "rejected"}

\* The handler of a status request past both middlewares: the caller holds a
\* staff role of at least 'funcionario'.
InStatusHandler(r) ==
    r.route = "mudarStatus" /\ r.pc \in {"handler", "guard", "update"}

\* The step in which slot s's status handler ends.
StatusHandlerEnds(s) ==
    /\ InStatusHandler(req[s])
    /\ req'[s].pc \in Ended

(* C3: a cancellation requested by any staff role for an order that is out *)
(* for delivery or delivered is answered with the guard's refusal (403, or *)
(* 409 for Conflict) and leaves the stored orders as they were.            *)
C3_CancelAfterDispatchRefused ==
    [][ \A s \in DOMAIN req :
          ( /\ StatusHandlerEnds(s)
            /\ req[s].novo_status = "cancelado"
            /\ ~req'[s].dbError
            /\ req[s].id \in PedidoIdsOf(pedidos)
            /\ RowOf(pedidos, req[s].id).status \in {"saiu_entrega", "entregue"} )
          => ( /\ req'[s].pc = "done"
               /\ req'[s].status \in {403, 409}
               /\ pedidos' = pedidos ) ]_vars

(* C4: a cancellation requested by staff for an existing order that is     *)
(* new, accepted or being prepared succeeds: the order becomes 'cancelado' *)
(* and the response is 200 carrying that status.                           *)
C4_CancelBeforeDispatchSucceeds ==
    [][ \A s \in DOMAIN req :
          ( /\ StatusHandlerEnds(s)
            /\ req[s].novo_status = "cancelado"
            /\ ~req'[s].dbError
            /\ req[s].id \in PedidoIdsOf(pedidos)
            /\ RowOf(pedidos, req[s].id).status \in {"novo", "aceito", "preparando"} )
          => ( /\ req'[s].pc = "done"
               /\ req'[s].status = 200
               /\ req'[s].reply.novo_status = "cancelado"
               /\ RowOf(pedidos', req[s].id).status = "cancelado" ) ]_vars

Terminal == {"entregue", "cancelado"}

Requestable == {"aceito", "preparando", "saiu_entrega", "entregue", "cancelado"}

GraphEdges ==
    {<<"novo", "aceito">>, <<"aceito", "preparando">>,
     <<"preparando", "saiu_entrega">>, <<"saiu_entrega", "entregue">>,
     <<"novo", "cancelado">>, <<"aceito", "cancelado">>,
     <<"preparando", "cancelado">>}

(* C6 as claimed: every change of an order's status follows an edge of the *)
(* graph novo -> aceito -> preparando -> saiu_entrega -> entregue, or      *)
(* leads to cancelado from novo, aceito or preparando.                     *)
C6_FollowsGraph ==
    [][ \A p \in pedidos, q \in pedidos' :
          (p.id = q.id /\ q.status # p.status)
          => <<p.status, q.status>> \in GraphEdges ]_vars

(* C6 as amended: every change of an order's status is made by a status    *)
(* request addressed to that order, sets the status that request asked     *)
(* for, which is never novo, and changes the status of no other order; the *)
(* change may skip states of the graph or move backward.                   *)
C6_ChangesOnlyAsRequested ==
    [][ \A p \in pedidos, q \in pedidos' :
          (p.id = q.id /\ q.status # p.status)
          => /\ q.status # "novo"
             /\ \E s \in DOMAIN req :
                   /\ InStatusHandler(req[s])
                   /\ req[s].id = p.id
                   /\ req[s].novo_status = q.status ]_vars

C6_Witness ==
    \E s \in DOMAIN req :
        /\ req[s].route = "mudarStatus"
        /\ req[s].pc = "done" /\ req[s].status = 200
        /\ <<req[s].antes, req[s].novo_status>> \in
               {<<"novo", "entregue">>, <<"preparando", "aceito">>}
        /\ RowOf(pedidos, req[s].id).status = req[s].novo_status

(* C9: the list of all orders is returned (200) only to a caller whose     *)
(* token carries a staff role.                                             *)
C9_ListOnlyForStaff ==
    \A s \in DOMAIN req :
        ( /\ req[s].route = "listarTodos"
          /\ req[s].pc = "done"
          /\ req[s].status = 200 )
        => ( /\ Authenticated(req[s])
             /\ req[s].user.role \in StaffRoles )

-----------------------------------------------------------------------------
(* Claims about order creation, under SpecOrder *)

RECURSIVE SumItens(_)
\* The sum of preco_unitario * quantidade over a sequence of item rows.
SumItens(rows) ==
    IF rows = <<>> THEN 0
    ELSE Head(rows).preco_unitario * Head(rows).quantidade + SumItens(Tail(rows))

\* The committed line items of an order, in insertion order.
ItensOf(id) == SelectSeq(itens_pedido, LAMBDA row : row.pedido_id = id)

\* The price of a product as the catalog holds it.
PrecoOf(produto_id) == (CHOOSE p \in produtos : p.id = produto_id).preco

(* C1: for every order that createOrder persisted, the total on the header *)
(* equals the sum over its persisted line items of unit price x quantity,  *)
(* and every stored unit price is the catalog's price of the product, not  *)
(* a price the client sent.                                                *)
C1_TotalIsSumOfItems ==
    \A p \in pedidos :
        /\ p.total = SumItens(ItensOf(p.id))
        /\ \A k \in DOMAIN ItensOf(p.id) :
              ItensOf(p.id)[k].preco_unitario = PrecoOf(ItensOf(p.id)[k].produto_id)

\* A createOrder request holding the AUTO_INCREMENT id `id` that has not
\* (or not yet) been answered 201.
Unfinished(r) ==
    /\ r.route = "criarPedido"
    /\ r.pedidoId # 0
    /\ ~(r.pc = "done" /\ r.status = 201)

(* C2: order creation is all-or-nothing.  Every committed line item        *)
(* belongs to a committed order header and every committed header has line *)
(* items; a request answered 201 has committed its header together with    *)
(* one line item per requested item, in order; and a request that failed   *)
(* after its transaction opened, or has not committed yet, has no          *)
(* committed row at all, neither header nor item.                          *)
C2_AllOrNothing ==
    /\ \A k \in DOMAIN itens_pedido :
          itens_pedido[k].pedido_id \in PedidoIdsOf(pedidos)
    /\ \A p \in pedidos : Len(ItensOf(p.id)) >= 1
    /\ \A s \in DOMAIN req :
          LET r == req[s]
          IN  /\ (r.route = "criarPedido" /\ r.pc = "done" /\ r.status = 201)
                 => /\ r.pedidoId \in PedidoIdsOf(pedidos)
                    /\ Len(ItensOf(r.pedidoId)) = r.nItens
                    /\ \A k \in 1..r.nItens :
                          ItensOf(r.pedidoId)[k] = ItemRow(r.pedidoId, r.dbItens[k])
              /\ Unfinished(r)
                 => /\ r.pedidoId \notin PedidoIdsOf(pedidos)
                    /\ ItensOf(r.pedidoId) = <<>>

\* A request whose second item INSERT failed after the header and the first
\* item had been written, while an earlier order stays committed.
C2_Witness ==
    \E s \in DOMAIN req :
        /\ req[s].route = "criarPedido"
        /\ req[s].pc = "done" /\ req[s].status = 500
        /\ req[s].txState = "rolledback"
        /\ req[s].pedidoId # 0
        /\ req[s].i = 2
        /\ pedidos # {}

-----------------------------------------------------------------------------
(* Claims about staff creation, under SpecStaff *)

(* C10: createStaff called by a manager succeeds only for the requested    *)
(* role employee; for every other requested role it is answered 403 and    *)
(* creates no account; and an owner account is created only by an owner.   *)
C10_ManagerCreatesOnlyEmployees ==
    \A s \in DOMAIN req :
        LET r == req[s]
        IN  (r.route = "novoFuncionario" /\ r.pc = "done" /\ Authenticated(r))
            => /\ (r.user.role = "gerente" /\ RoleOrDefault(r.role) # "funcionario")
                  => (r.status = 403 /\ r.reply.id = 0)
               /\ (r.status = 201 /\ RoleOrDefault(r.role) = "dono")
                  => r.user.role = "dono"

-----------------------------------------------------------------------------
(* Claims about staff deletion, under SpecStaff *)

\* The stored account a DELETE funcionario/:id request addresses.
TargetOf(r) == {a \in administradores : a.id = r.id}

\* The request addresses its own caller or an owner account.
DeleteGuarded(r) ==
    /\ r.route = "excluirFuncionario"
    /\ Authenticated(r)
    /\ r.id = r.user.id \/ \E a \in TargetOf(r) : a.role = "dono"

(* C11: a deleteStaff call whose target is the caller's own account, or an *)
(* account of role owner, deletes nothing and is answered Forbidden (403), *)
(* by the role gate or by the handler, whoever the caller is; the only     *)
(* other answer is the 500 of a failed SELECT, which deletes nothing       *)
(* either, and a self-deletion is always answered 403.  No step of any     *)
(* deleteStaff call removes an owner account.                              *)
C11_OwnerAndSelfNeverDeleted ==
    [][\A s \in DOMAIN req :
          LET r == req[s]
              after == req'[s]
          IN  /\ \A a \in administradores : a.role = "dono" => a \in administradores'
              /\ (DeleteGuarded(r) /\ r.pc \in {"perm", "handler", "delete"})
                 => /\ administradores' = administradores
                    /\ after.pc \in {"handler", "done"}
                    /\ r.pc = "handler" => after.pc = "done"
                    /\ after.pc = "done"
                       => \/ after.status = 403
                          \/ /\ after.status = 500 /\ after.dbError
                             /\ r.id # r.user.id]_vars

\* An owner's request to delete another stored owner account was refused
\* with 403 by the handler, both owners still being stored.
C11_Witness ==
    \E s \in DOMAIN req :
        /\ req[s].route = "excluirFuncionario"
        /\ req[s].pc = "done" /\ req[s].status = 403
        /\ req[s].user.role = "dono"
        /\ req[s].id # req[s].user.id
        /\ \E a \in administradores : a.id = req[s].id /\ a.role = "dono"
        /\ \E a \in administradores : a.id = req[s].user.id /\ a.role = "dono"

-----------------------------------------------------------------------------
(* Claims about authentication, under SpecAuth *)

\* The request carries no credential that either middleware accepts: no
\* Authorization header, a header that is not 'Bearer ...', an expired token
\* or a token whose signature does not verify.
BadCredential(r) == r.header # "bearer" \/ ~r.token.sig \/ r.token.expired

\* The request carried a bearer token that jwt.verify refused.
BadToken(r) == r.header = "bearer" /\ (~r.token.sig \/ r.token.expired)

\* The request went through its authentication middleware.
PastAuth(r) == r.route \in Routes /\ r.pc # "auth"

(* C12: authentication failure is uniform.  On every route, behind either  *)
(* middleware, a request with no Authorization header, a header that is    *)
(* not a bearer header, an expired token or a token with a bad signature   *)
(* is answered 401 and never goes further; and two requests refused for    *)
(* their token, one expired and one tampered, on any two routes, receive   *)
(* the same response, message included.                                    *)
C12_AuthFailureUniform ==
    /\ \A s \in DOMAIN req :
          (PastAuth(req[s]) /\ BadCredential(req[s]))
          => (req[s].pc = "done" /\ req[s].status = 401)
    /\ \A s1, s2 \in DOMAIN req :
          ( /\ PastAuth(req[s1]) /\ BadToken(req[s1])
            /\ PastAuth(req[s2]) /\ BadToken(req[s2]) )
          => /\ req[s1].status = req[s2].status
             /\ req[s1].reply = req[s2].reply

\* An expired token before the staff middleware and a tampered token before
\* the buyer middleware, both answered.
C12_Witness ==
    \E s1, s2 \in DOMAIN req :
        /\ req[s1].pc = "done" /\ req[s2].pc = "done"
        /\ RouteAuth(req[s1].route) = "admin" /\ RouteAuth(req[s2].route) = "comprador"
        /\ req[s1].header = "bearer" /\ req[s1].token.sig /\ req[s1].token.expired
        /\ req[s2].header = "bearer" /\ ~req[s2].token.sig /\ ~req[s2].token.expired
        /\ req[s1].status = 401 /\ req[s2].status = 401

(* C13: authentication precedes authorization.  A request whose            *)
(* credential fails verification leaves its authentication middleware      *)
(* answered 401, with no claims attached, and goes no further; the role    *)
(* check of a gated route is entered only from the authentication          *)
(* middleware, by a request whose token verified and whose claims were     *)
(* attached in that same step; and the handler of a gated route is entered *)
(* only from the role check.                                               *)
C13_AuthBeforeRoleCheck ==
    [][\A s \in DOMAIN req :
          LET r == req[s]
              after == req'[s]
          IN  /\ (r.pc = "auth" /\ after # r /\ BadCredential(r))
                 => /\ after.pc = "done" /\ after.status = 401
                    /\ after.user = NoUser
              /\ (after.pc = "perm" /\ r.pc # "perm")
                 => /\ r.pc = "auth" /\ ~BadCredential(r)
                    /\ after.user = [id |-> r.token.id, role |-> r.token.role]
              /\ (after.route \in GatedRoutes /\ after.pc = "handler" /\ r.pc # "handler")
                 => (r.pc = "perm" /\ Authenticated(r))]_vars

\* On gated routes: a request with a tampered token answered 401 with no
\* claims attached, next to a request that passed both middlewares.
C13_Witness ==
    \E s1, s2 \in DOMAIN req :
        /\ req[s1].route \in GatedRoutes /\ req[s2].route \in GatedRoutes
        /\ req[s1].pc = "done" /\ req[s1].status = 401
        /\ req[s1].header = "bearer" /\ ~req[s1].token.sig
        /\ req[s1].user = NoUser
        /\ req[s2].pc = "handler" /\ Authenticated(req[s2])

-----------------------------------------------------------------------------
(* Claims about the validation of an order, under SpecOrder *)

\* A JSON quantity that is a positive integer.
PositiveInteger(q) == q.kind = "num" /\ q.tenths > 0 /\ q.tenths % 10 = 0

\* The request was answered 500, or left to the framework, after a statement
\* of it failed in the store.
InternalFailure(r) == r.dbError /\ r.pc \in Ended /\ r.status \in {0, 500}

\* The items of the request that the first loop has read so far.
ItemsRead(r) ==
    {[x EXCEPT !.preco_unitario = 0] : x \in RangeOf(r.dbItens)}
    \cup (IF r.item.produto_id = 0 THEN {} ELSE {[r.item EXCEPT !.preco_unitario = 0]})

(* C14: a createOrder request with an empty address, an empty item list or *)
(* an item whose quantity is not a positive integer is answered 400, and   *)
(* nothing of it is persisted.  The only other outcomes admitted here are  *)
(* the 404 of an item whose product is missing or unavailable and the      *)
(* Internal failure of a statement.                                        *)
C14_InvalidInputRefused ==
    \A s \in DOMAIN req :
        LET r == req[s]
        IN  ( /\ r.route = "criarPedido" /\ r.pc \in Ended /\ Authenticated(r)
              /\ \/ ~r.endereco
                 \/ r.nItens = 0
                 \/ \E x \in ItemsRead(r) : ~PositiveInteger(x.quantidade) )
            => /\ InternalFailure(r) \/ r.status \in {400, 404}
               /\ r.pedidoId \notin PedidoIdsOf(pedidos)

\* The ids of the products that can be ordered.
Disponiveis == {p.id : p \in {x \in produtos : x.disponivel}}

(* C15: when the first loop of createOrder reaches an item whose product   *)
(* does not exist or is unavailable, the request ends in that step: the    *)
(* transaction is rolled back and the answer is 404 (or the request ends   *)
(* as an Internal failure of the SELECT or of the ROLLBACK); the step      *)
(* writes no row, and the request holds no order id and no pending row,    *)
(* whatever items it validated before.                                     *)
C15_MissingProductAborts ==
    [][\A s \in DOMAIN req :
          LET r == req[s]
              after == req'[s]
          IN  ( /\ r.route = "criarPedido" /\ r.pc = "validate" /\ after # r
                /\ after.item # IdleReq.item
                /\ after.item.produto_id \notin Disponiveis )
              => /\ after.pc \in Ended
                 /\ \/ after.status = 404 /\ after.pc = "done"
                    \/ InternalFailure(after)
                 /\ after.txState = "rolledback"
                 /\ after.connection = "released"
                 /\ after.tx = NoTx /\ after.pedidoId = 0
                 /\ pedidos' = pedidos /\ itens_pedido' = itens_pedido]_vars

\* A request refused 404 for its second item, an unavailable product, after
\* its first item had passed validation.
C15_Witness ==
    \E s \in DOMAIN req :
        /\ req[s].route = "criarPedido"
        /\ req[s].pc = "done" /\ req[s].status = 404
        /\ Len(req[s].dbItens) = 1
        /\ req[s].item.produto_id \in {p.id : p \in produtos} \ Disponiveis
        /\ PositiveInteger(req[s].item.quantidade)
        /\ req[s].txState = "rolledback"

-----------------------------------------------------------------------------
(* Claims about buyer reads, under SpecBuyer *)

\* The order the request addresses exists and belongs to another buyer.
Foreign(r) ==
    \E p \in pedidos : p.id = r.id /\ p.comprador_id # r.user.id

\* The order the request addresses does not exist.
Unknown(r) == r.id \notin PedidoIdsOf(pedidos)

\* A finished request to the detail route by a verified buyer, none of whose
\* statements failed.
DetailAnswered(r) ==
    /\ r.route = "meuPedido" /\ r.pc = "done"
    /\ Authenticated(r) /\ ~r.dbError

(* C16: buyer reads are owner-scoped.  The list route answers with exactly *)
(* the orders whose comprador_id is the id of the requesting buyer; the    *)
(* detail route answers 200 only for an order of the requesting buyer; and *)
(* for an order of another buyer it answers 404 with the very response it  *)
(* gives for an order id that does not exist.                              *)
C16_BuyerReadsOwnerScoped ==
    /\ \A s \in DOMAIN req :
          LET r == req[s]
          IN  /\ (r.route = "meusPedidos" /\ r.pc = "done" /\ r.status = 200)
                 => r.reply.pedidos =
                       {p.id : p \in {x \in pedidos : x.comprador_id = r.user.id}}
              /\ (r.route = "meuPedido" /\ r.pc \in {"itens", "done"}
                     /\ r.reply.pedido_id # 0)
                 => /\ r.reply.pedido_id = r.id
                    /\ RowOf(pedidos, r.id).comprador_id = r.user.id
              /\ (DetailAnswered(r) /\ (Foreign(r) \/ Unknown(r)))
                 => r.status = 404
    /\ \A s1, s2 \in DOMAIN req :
          ( /\ DetailAnswered(req[s1]) /\ Foreign(req[s1])
            /\ DetailAnswered(req[s2]) /\ Unknown(req[s2]) )
          => /\ req[s1].status = req[s2].status
             /\ req[s1].reply = req[s2].reply

\* Buyer 1 asked for an order of buyer 2 and buyer 2 for an order id that
\* does not exist; both were answered, and buyer 2 has an order to hide.
C16_Witness ==
    \E s1, s2 \in DOMAIN req :
        /\ DetailAnswered(req[s1]) /\ Foreign(req[s1])
        /\ DetailAnswered(req[s2]) /\ Unknown(req[s2])
        /\ req[s1].user.id # req[s2].user.id
        /\ req[s1].status = 404

-----------------------------------------------------------------------------
(* Claims about the connection and the transaction of createOrder, under   *)
(* SpecOrder                                                               *)

\* How many times the request's log holds the entry e.
Times(log, e) == Cardinality({k \in DOMAIN log : log[k] = e})

(* C17: every createOrder execution that obtained a connection releases it *)
(* exactly once by the time its handler has finished, on the 201 path, on  *)
(* the 404 and 400 early returns and on every path through the catch      *)
(* block; a connection is held only by a handler that is still running,    *)
(* and an execution that obtained no connection releases none.             *)
C17_ConnectionReleasedOnce ==
    \A s \in DOMAIN req :
        LET r == req[s]
        IN  r.route = "criarPedido"
            => /\ Times(r.log, "RELEASE") <= 1
               /\ r.connection = "held"
                  => /\ r.pc \in {"validate", "insertPedido", "insertItens", "commit"}
                     /\ Times(r.log, "RELEASE") = 0
               /\ r.connection = "released" <=> Times(r.log, "RELEASE") = 1
               /\ r.pc \in {"validate", "insertPedido", "insertItens", "commit"}
                  => r.connection = "held"
               /\ r.pc \in Ended => r.connection \in {"none", "released"}

\* A request refused 400 for the quantity of its second item, by the early
\* return inside the transaction, with its connection released.
C17_Witness ==
    \E s \in DOMAIN req :
        /\ req[s].route = "criarPedido"
        /\ req[s].pc = "done" /\ req[s].status = 400
        /\ Len(req[s].dbItens) = 1
        /\ req[s].connection = "released"
        /\ Times(req[s].log, "RELEASE") = 1

\* The position of the first entry e in the log, 0 when there is none.
FirstAt(log, e) ==
    IF \E k \in DOMAIN log : log[k] = e
    THEN CHOOSE k \in DOMAIN log : log[k] = e /\ \A j \in 1..(k - 1) : log[j] # e
    ELSE 0

\* The request, having opened its transaction, has been answered with an
\* error.
FailedInTransaction(r) ==
    /\ r.route = "criarPedido"
    /\ Includes(r.log, "START")
    /\ r.status \notin {0, 201}

(* C18: rollback precedes the error response.  A createOrder request that  *)
(* is answered with an error after START TRANSACTION has issued ROLLBACK   *)
(* before that response, and its transaction is rolled back, neither open  *)
(* nor committed; a request whose transaction is open has been answered    *)
(* nothing, and one whose transaction is committed was answered 201.       *)
C18_RollbackBeforeError ==
    \A s \in DOMAIN req :
        LET r == req[s]
        IN  /\ FailedInTransaction(r)
               => /\ r.txState = "rolledback"
                  /\ r.tx = NoTx
                  /\ FirstAt(r.log, "ROLLBACK") # 0
                  /\ FirstAt(r.log, "ROLLBACK") < FirstAt(r.log, "RESPOND")
                  /\ FirstAt(r.log, "START") < FirstAt(r.log, "ROLLBACK")
            /\ (r.route = "criarPedido" /\ r.txState = "open") => r.status = 0
            /\ (r.route = "criarPedido" /\ r.txState = "committed") => r.status = 201

\* A request answered 500 after its COMMIT failed, header and item rows
\* having been written in the transaction.
C18_Witness ==
    \E s \in DOMAIN req :
        /\ FailedInTransaction(req[s])
        /\ req[s].pc = "done" /\ req[s].status = 500
        /\ req[s].pedidoId # 0
        /\ req[s].i = req[s].nItens + 1
        /\ req[s].log = <<"START", "ROLLBACK", "RESPOND", "RELEASE">>

-----------------------------------------------------------------------------
(* Claims about concurrent order creation, under SpecConc *)

RECURSIVE TotalOf(_)
\* The total of a list of validated items: price read x parseInt(quantity).
TotalOf(itens) ==
    IF itens = <<>> THEN 0
    ELSE Head(itens).preco_unitario * ParseInt(Head(itens).quantidade).val
         + TotalOf(Tail(itens))

\* Every item the request's first loop has read names the available product
\* with a quantity the handler accepts.
AllItemsAccepted(r) ==
    /\ Len(r.dbItens) = r.nItens
    /\ \A k \in DOMAIN r.dbItens : r.dbItens[k].produto_id \in Disponiveis

\* The request was answered 201.
Created(r) == r.route = "criarPedido" /\ r.pc = "done" /\ r.status = 201

(* C19: concurrent createOrder calls on the same product do not interfere. *)
(* Under every interleaving of their steps, a call whose items are all     *)
(* accepted and none of whose statements fails ends with 201; each call    *)
(* answered 201 has its own order id, its header holds its own buyer and   *)
(* the total of the prices it read, and the line items stored under its    *)
(* order id are exactly its own items, in its order.                       *)
C19_ConcurrentOrdersIndependent ==
    /\ \A s \in DOMAIN req :
          LET r == req[s]
          IN  /\ ( /\ r.route = "criarPedido" /\ r.pc \in Ended
                    /\ ~r.dbError /\ AllItemsAccepted(r) )
                 => Created(r)
              /\ Created(r)
                 => /\ \E p \in pedidos :
                          /\ p.id = r.pedidoId
                          /\ p.comprador_id = r.user.id
                          /\ p.total = TotalOf(r.dbItens)
                    /\ r.reply.pedido_id = r.pedidoId
                    /\ r.reply.total = TotalOf(r.dbItens)
                    /\ ItensOf(r.pedidoId) =
                          [k \in 1..r.nItens |-> ItemRow(r.pedidoId, r.dbItens[k])]
    /\ \A s1, s2 \in DOMAIN req :
          (s1 # s2 /\ req[s1].pedidoId # 0) => req[s1].pedidoId # req[s2].pedidoId
    /\ Cardinality(pedidos) = Cardinality(PedidoIdsOf(pedidos))

\* Both calls were answered 201 after their steps interleaved: the call that
\* inserted its header first committed last.
C19_Witness ==
    /\ Created(req[1]) /\ Created(req[2])
    /\ req[1].pedidoId = 1 /\ req[2].pedidoId = 2
    /\ Len(itens_pedido) >= 2
    /\ itens_pedido[1].pedido_id = 2
    /\ itens_pedido[Len(itens_pedido)].pedido_id = 1

-----------------------------------------------------------------------------
(* Claims about the price snapshot, under SpecFrozen *)

\* No step changes or removes a committed line item, or changes the total of
\* a committed order.
LineItemsFrozen ==
    /\ \A k \in DOMAIN itens_pedido :
          k \in DOMAIN itens_pedido' /\ itens_pedido'[k] = itens_pedido[k]
    /\ \A p \in pedidos :
          \E q \in pedidos' : q.id = p.id /\ q.total = p.total

(* C20: the price snapshot is frozen.  Once an order is committed, no step *)
(* of any request (product price update, availability change, product      *)
(* read, status transition, creation of another order) changes the unit    *)
(* price or the quantity of one of its line items, or its total; and every *)
(* committed line item has a quantity greater than 0.                      *)
C20_PriceSnapshotFrozen ==
    /\ [][LineItemsFrozen]_vars
    /\ [](\A k \in DOMAIN itens_pedido : itens_pedido[k].quantidade > 0)
-----------------------------------------------------------------------------
(* Claims about who changes an order's status, under SpecStatus *)

\* The request carries no token that verifies, or carries a buyer's token.
NotStaffCaller(r) ==
    \/ r.header # "bearer"
    \/ ~r.token.sig
    \/ r.token.expired
    \/ r.token.role \notin StaffRoles

(* C21: an order's status changes only in a step of a status request that  *)
(* carries a verifying token whose role is funcionario, gerente or dono    *)
(* and that addresses that order; no step of a request that carries a      *)
(* buyer token, a token that does not verify, or no token changes the      *)
(* status of any order.                                                    *)
C21_StatusChangedOnlyByStaff ==
    [][ /\ \A p \in pedidos, q \in pedidos' :
             (p.id = q.id /\ q.status # p.status)
             => \E s \in DOMAIN req :
                   /\ req[s].route = "mudarStatus"
                   /\ req'[s] # req[s]
                   /\ ~NotStaffCaller(req[s])
                   /\ JsGE(RankOf(req[s].token.role), RankOf("funcionario"))
                   /\ req[s].id = p.id
        /\ \A s \in DOMAIN req :
             (req'[s] # req[s] /\ req[s].pc # "idle" /\ NotStaffCaller(req[s])
                /\ req[s].pc \notin Ended)
             => \A p \in pedidos, q \in pedidos' : p.id = q.id => q.status = p.status
      ]_vars

\* An employee's request has changed the status of an order.
C21_Witness ==
    \E s \in DOMAIN req :
        /\ req[s].route = "mudarStatus"
        /\ req[s].user.role = "funcionario"
        /\ req[s].pc = "done" /\ req[s].status = 200
        /\ req[s].antes # req[s].novo_status
        /\ RowOf(pedidos, req[s].id).status = req[s].novo_status

-----------------------------------------------------------------------------
(* Claims about order deletion, under SpecDelete *)

\* The step in which slot s's deletion is committed and answered 200.
DeletionSucceeds(s) ==
    /\ req[s].route = "deletarPedido"
    /\ req[s].pc = "delCommit"
    /\ req'[s].pc = "done" /\ req'[s].status = 200

\* The step in which slot s's DELETE of the header finds no order.
DeletionFindsNothing(s) ==
    /\ req[s].route = "deletarPedido"
    /\ req[s].pc = "delPedido"
    /\ req'[s] # req[s]
    /\ req[s].id \notin PedidoIdsOf(pedidos)

(* C22: line items never outlive their order.  In every state each line    *)
(* item references a committed order; the step that answers a deletion 200 *)
(* removes the header of the addressed order and every line item of it,    *)
(* and nothing else; and a deletion whose DELETE of the header finds no    *)
(* order ends in that step with 404 (or as an Internal failure) and        *)
(* removes nothing.                                                        *)
C22_ItemsNeverOutliveOrder ==
    /\ [](\A k \in DOMAIN itens_pedido :
             itens_pedido[k].pedido_id \in PedidoIdsOf(pedidos))
    /\ [][\A s \in DOMAIN req :
            /\ DeletionSucceeds(s)
               => /\ req[s].id \in PedidoIdsOf(pedidos)
                  /\ pedidos' = {p \in pedidos : p.id # req[s].id}
                  /\ itens_pedido' =
                         SelectSeq(itens_pedido, LAMBDA row : row.pedido_id # req[s].id)
            /\ DeletionFindsNothing(s)
               => /\ req'[s].pc \in Ended
                  /\ req'[s].status = 404 \/ InternalFailure(req'[s])
                  /\ pedidos' = pedidos /\ itens_pedido' = itens_pedido]_vars

\* A deletion answered 200 has removed an order and its line items while
\* another order and its line items stay.
C22_Witness ==
    \E s \in DOMAIN req :
        /\ req[s].route = "deletarPedido"
        /\ req[s].pc = "done" /\ req[s].status = 200
        /\ req[s].affectedRows = 1
        /\ req[s].id < nextPedidoId
        /\ req[s].id \notin PedidoIdsOf(pedidos)
        /\ pedidos # {}
        /\ Len(itens_pedido) = 2

-----------------------------------------------------------------------------
(* Claims about the status handler's answers, under SpecStatus *)

(* C23: a status request that has passed the gate and whose novo_status is *)
(* missing, is novo, or is none of the defined statuses is answered 400 in *)
(* the handler's first step, without reaching the guard or the UPDATE, and *)
(* that step changes no order, whatever the order's status and whether the *)
(* order exists.                                                           *)
C23_InvalidStatusRefused ==
    /\ [][\A s \in DOMAIN req :
            LET r == req[s]
                after == req'[s]
            IN  ( /\ r.route = "mudarStatus" /\ r.pc = "handler" /\ after # r
                  /\ r.novo_status \notin Requestable )
                => /\ after.pc = "done" /\ after.status = 400
                   /\ pedidos' = pedidos /\ itens_pedido' = itens_pedido]_vars
    /\ [](\A s \in DOMAIN req :
            (req[s].route = "mudarStatus" /\ req[s].novo_status \notin Requestable)
            => req[s].pc \notin {"guard", "update"})

\* A request for the status novo on a delivered order was answered 400 and
\* the order is still delivered.
C23_Witness ==
    \E s \in DOMAIN req :
        /\ req[s].route = "mudarStatus"
        /\ req[s].pc = "done" /\ req[s].status = 400
        /\ req[s].novo_status = "novo"
        /\ req[s].id \in PedidoIdsOf(pedidos)
        /\ RowOf(pedidos, req[s].id).status = "entregue"

(* C24: a status request with a valid novo_status, cancelado included, for *)
(* an order id that does not exist ends with 404 and changes no order; for *)
(* an existing order a request for a status other than cancelado ends with *)
(* 200, the order holds the requested status and the response carries it.  *)
(* Failures of the store are left aside.                                   *)
C24_MissingOrderNotFound ==
    [][\A s \in DOMAIN req :
          LET r == req[s]
              after == req'[s]
          IN  ( /\ StatusHandlerEnds(s)
                /\ r.novo_status \in Requestable
                /\ ~after.dbError )
              => /\ r.id \notin PedidoIdsOf(pedidos)
                    => /\ after.pc = "done" /\ after.status = 404
                       /\ pedidos' = pedidos
                 /\ (r.id \in PedidoIdsOf(pedidos) /\ r.novo_status # "cancelado")
                    => /\ after.pc = "done" /\ after.status = 200
                       /\ after.reply.novo_status = r.novo_status
                       /\ RowOf(pedidos', r.id).status = r.novo_status]_vars

-----------------------------------------------------------------------------
(* Claims about concurrent status requests, under SpecRace *)

-----------------------------------------------------------------------------
(* Claims about the responses of the status route, under SpecStatus *)

(* C26: every status request that passed authentication and the role gate  *)
(* and whose handler has ended has been sent exactly one response: 200,    *)
(* 400, 403 or 409, 404 or 500, for every novo_status, cancelado included. *)
C26_StatusRequestAnswered ==
    \A s \in DOMAIN req :
        LET r == req[s]
        IN  ( /\ r.route = "mudarStatus"
              /\ Authenticated(r)
              /\ r.user.role \in StaffRoles
              /\ r.pc \in Ended )
            => /\ r.status \in {200, 400, 403, 404, 409, 500}
               /\ Times(r.log, "RESPOND") = 1

-----------------------------------------------------------------------------
(* Claims about the owner accounts, under SpecStaff *)

\* The stored accounts of role dono.
Owners == {a \in administradores : a.role = "dono"}

(* C27: the set of owner accounts never shrinks.  From the bootstrapped    *)
(* store, which holds the initial owner, no step of a createStaff or       *)
(* deleteStaff call by any caller removes or alters an owner account, so   *)
(* every state holds at least one owner account.                           *)
C27_OwnersNeverShrink ==
    /\ [](Owners # {} /\ InitialAdmin \in Owners)
    /\ [][Owners \subseteq administradores']_vars

\* An owner's deleteStaff call has removed an account while two owner
\* accounts, the initial one and one created since, are stored.
C27_Witness ==
    /\ Cardinality(Owners) = 2
    /\ \E s \in DOMAIN req :
          /\ req[s].route = "excluirFuncionario"
          /\ req[s].pc = "done" /\ req[s].status = 200
          /\ req[s].id \notin {a.id : a \in administradores}

-----------------------------------------------------------------------------
(* Claims about tokens of deleted accounts, under SpecStale *)

(* C28: the middlewares decide from the token alone.  authMiddleware lets  *)
(* a request through exactly when its bearer token is well signed and not  *)
(* expired, and hands on the id and the role the token embeds; the role    *)
(* gate lets it through exactly when the rank of that role reaches the     *)
(* rank the route requires; neither depends on whether the account is      *)
(* still stored, so the token of a deleted account passes both until it    *)
(* expires.                                                                *)
C28_TokenClaimsDecide ==
    [][\A s \in DOMAIN req :
          LET r == req[s]
              after == req'[s]
          IN  /\ (r.pc = "auth" /\ RouteAuth(r.route) = "admin" /\ after # r)
                 => /\ after.pc # "done"
                       <=> (r.header = "bearer" /\ r.token.sig /\ ~r.token.expired)
                    /\ after.pc # "done"
                       => after.user = [id |-> r.token.id, role |-> r.token.role]
              /\ (r.pc = "perm" /\ after # r)
                 => ( after.pc = "handler"
                      <=> JsGE(RankOf(r.token.role), RankOf(RouteRequired(r.route))) )]_vars

\* The manager's account has been deleted and a request carrying the token
\* issued to it has passed both middlewares and received the reports.
C28_Witness ==
    \E s \in DOMAIN req :
        /\ req[s].route = "relatorios"
        /\ req[s].pc = "done" /\ req[s].status = 200
        /\ req[s].reply.role = "gerente"
        /\ req[s].token.id \notin {a.id : a \in administradores}

-----------------------------------------------------------------------------
(* Claims about what a status request leaves alone, under SpecStatus *)

(* C29: no step of a status request, whether the request ends with 200 or  *)
(* fails, adds or removes an order, changes the total, the buyer id or the *)
(* address of any order, changes any line item, or changes an order other  *)
(* than the one the request addresses; the catalog and the staff accounts  *)
(* stay as they are too.                                                   *)
C29_TransitionFrame ==
    [][\A s \in DOMAIN req :
          ( /\ req[s].route = "mudarStatus"
            /\ req[s].pc \notin {"idle"} \cup Ended
            /\ req'[s] # req[s] )
          => /\ itens_pedido' = itens_pedido
             /\ produtos' = produtos /\ administradores' = administradores
             /\ PedidoIdsOf(pedidos') = PedidoIdsOf(pedidos)
             /\ \A p \in pedidos :
                   LET q == RowOf(pedidos', p.id)
                   IN  /\ q.total = p.total
                       /\ q.comprador_id = p.comprador_id
                       /\ q.endereco = p.endereco
                       /\ p.id # req[s].id => q = p]_vars

\* A request has moved one order to preparando while another order is still
\* new, both with the total and the line item they were created with.
C29_Witness ==
    \E s \in DOMAIN req :
        /\ req[s].route = "mudarStatus"
        /\ req[s].pc = "done" /\ req[s].status = 200
        /\ req[s].novo_status = "preparando" /\ req[s].antes = "novo"
        /\ RowOf(pedidos, req[s].id) = [PlacedOrder(req[s].id) EXCEPT !.status = "preparando"]
        /\ \E p \in pedidos : p.id # req[s].id /\ p = PlacedOrder(p.id)
        /\ \A id \in PedidoIdsOf(pedidos) : ItensOf(id) = <<PlacedItem(id)>>

-----------------------------------------------------------------------------
(* Claims about the orders createOrder persists, under SpecCarts *)

(* C30: every committed order has at least one line item, and an order     *)
(* becomes committed only in the COMMIT step of a createOrder request that *)
(* carries a verifying buyer token whose id is the order's buyer id; a     *)
(* request with an empty item list commits nothing.  This holds for calls  *)
(* that succeed, that fail, and whose steps interleave.                    *)
C30_OrdersHaveItemsAndTheirBuyer ==
    /\ [](\A p \in pedidos : Len(ItensOf(p.id)) >= 1)
    /\ [](\A s \in DOMAIN req :
             (req[s].route = "criarPedido" /\ req[s].nItens = 0)
             => (req[s].pedidoId = 0 /\ req[s].txState = "none"))
    /\ [][\A q \in pedidos' :
            q.id \notin PedidoIdsOf(pedidos)
            => \E s \in DOMAIN req :
                  /\ req[s].route = "criarPedido" /\ req[s].pc = "commit"
                  /\ req[s].pedidoId = q.id
                  /\ req[s].token.sig /\ ~req[s].token.expired
                  /\ req[s].token.role = "comprador"
                  /\ q.comprador_id = req[s].token.id
                  /\ req[s].nItens >= 1
                  /\ Created(req'[s])]_vars

\* One buyer's call has committed an order held under that buyer's id, with
\* its line items, while the other buyer's call with an empty item list was
\* refused.
C30_Witness ==
    \E a, b \in DOMAIN req :
        /\ a # b
        /\ Created(req[a])
        /\ RowOf(pedidos, req[a].pedidoId).comprador_id = req[a].token.id
        /\ Len(ItensOf(req[a].pedidoId)) >= 1
        /\ req[b].route = "criarPedido" /\ req[b].nItens = 0
        /\ req[b].pc = "done" /\ req[b].status = 400
        /\ req[b].token.id # req[a].token.id

====
